---- MODULE Spec2Model ----
(***************************************************************************)
(* Verification model of the font-maker raster-to-vector pipeline.         *)
(*                                                                         *)
(*   Spec           processTemplatePage / validateTemplateImage            *)
(*                  (src/lib/image/TemplateProcessor.ts) with the          *)
(*                  page-level processing of OpenCVProcessor.ts and the    *)
(*                  per-cell vectorizer.                                   *)
(*   SpecCache      getBlankTemplate / clearTemplateCache.                 *)
(*   SpecNormalize  vectorizeCell's bounds and templateNormalize.          *)
(*   SpecRender     renderBlankTemplate and drawMarkers.                   *)
(*   SpecMorph      morphologicalCleanup.                                  *)
(*   SpecPolarity   ensureForegroundInk and ensureInkIsWhite.              *)
(*   SpecThinning   zhangSuenThinning, pass by pass; SpecThinningFair      *)
(*                  adds weak fairness of the loop's steps.                *)
(*   SpecWeld       weldEndpoints.                                         *)
(*   SpecSimplify   simplifyStroke and simplifyPath.                       *)
(*   SpecContour    reverseContour and calculateSignedArea.                *)
(*   SpecMonoline   processMonoline, step by step.                         *)
(*   SpecComponents removeSmallComponents.                                 *)
(*   SpecFilter     extractPathFromSvg on lists of traced paths.           *)
(*   SpecOpentype   normalizedSvgToOpentypePath (JSON input).              *)
(*   SpecPass       one pass of zhangSuenThinning, by sub-iteration.       *)
(*   SpecLoader     loadOpenCV with the script and the runtime;            *)
(*                  SpecLoaderFair adds weak fairness of the script        *)
(*                  events and of the timer.                               *)
(*   SpecStore      the glyph store and the draw page.                     *)
(*   SpecUpload     the upload page and processCurrentPage.                *)
(*                                                                         *)
(* Arrays are 0-based in the source and 1-based here: characters[i] of the *)
(* source is Characters(cs)[i + 1].                                        *)
(***************************************************************************)
EXTENDS Integers, Sequences, FiniteSets, TLC

(***************************************************************************)
(* Bounds of the model.                                                    *)
(***************************************************************************)
MaxCells == 4        \* cellsPerRow * rowsPerPage <= MaxCells
MaxPage == 1         \* pageNumber in 0..MaxPage
NumAll == 7          \* length of the modelled ALL_CHARACTERS list

NULL == "null"

\* null where the non-null values are records
NullRecord == [null |-> TRUE]

(***************************************************************************)
(* Character lists (src/lib/constants/characters.ts).                      *)
(***************************************************************************)
ALL_CHARACTERS ==
    [k \in 1..NumAll |-> [unicode |-> 64 + k, required |-> (k % 3 # 0)]]

IsRequired(c) == c.required

REQUIRED_CHARACTERS == SelectSeq(ALL_CHARACTERS, IsRequired)

CharacterSets == {"required", "all"}

\* const characters = characterSet === 'all' ? ALL_CHARACTERS : REQUIRED_CHARACTERS
Characters(characterSet) ==
    IF characterSet = "all" THEN ALL_CHARACTERS ELSE REQUIRED_CHARACTERS

Min(a, b) == IF a < b THEN a ELSE b
Max(a, b) == IF a > b THEN a ELSE b

(***************************************************************************)
(* Inputs of one invocation.                                               *)
(***************************************************************************)
\* TemplateConfig values; page size and dpi are those of
\* DEFAULT_TEMPLATE_CONFIG.
GridConfigs ==
    {g \in [pageSize : {"letter"}, cellsPerRow : 1..MaxCells,
            rowsPerPage : 1..MaxCells, dpi : {150}] :
        g.cellsPerRow * g.rowsPerPage <= MaxCells}

ProcessingOptions ==
    [config : GridConfigs, characterSet : CharacterSets,
     pageNumber : 0..MaxPage, hasProgress : BOOLEAN]

Corners == {"topLeft", "topRight", "bottomLeft", "bottomRight"}

\* Values a host callback can throw: an Error carrying a message, or any
\* other value (here the string 'stop', kept as its message).
ThrowValues ==
    {[isError |-> TRUE, message |-> "cancelled"],
     [isError |-> FALSE, message |-> "stop"]}

NoThrow == [isError |-> FALSE, message |-> "none"]

VARIABLES
    pc,           \* position of the running invocation
    opts,         \* the ProcessingOptions of the invocation
    i,            \* loop variable of the per-cell loop
    processed,    \* the ProcessedPage returned by processPage, or null
    result,       \* the ProcessingResult being built
    validation,   \* the value returned by validateTemplateImage, or null
    mats,         \* OpenCV Mats: per name, how many were allocated and deleted
    progressLog,  \* the onProgress invocations made so far
    extracted,    \* local cell indexes handed to extractCell so far
    thrown        \* what was thrown into the catch block, and where

pipeVars ==
    <<pc, opts, i, processed, result, validation, mats, progressLog,
      extracted, thrown>>



(***************************************************************************)
(* OpenCV Mat bookkeeping.                                                 *)
(***************************************************************************)
MatNames ==
    {"scanMat", "templateMat", "debugBinary", "warped", "subtracted",
     "cleaned", "homography", "cellMat", "cleanedCellMat", "warpedCellMat",
     "mat"}

NoMats == [m \in MatNames |-> [allocated |-> 0, deleted |-> 0]]

\* new cv.Mat(), clone(), roi(): one more live Mat of each name in names
Allocate(ms, names) ==
    [m \in MatNames |->
        IF m \in names
        THEN [ms[m] EXCEPT !.allocated = @ + 1]
        ELSE ms[m]]

\* mat.delete()
Delete(ms, names) ==
    [m \in MatNames |->
        IF m \in names
        THEN [ms[m] EXCEPT !.deleted = @ + 1]
        ELSE ms[m]]

PageFields ==
    {"warped", "subtracted", "cleaned", "thresholded", "homography"}

\* cleanupProcessedPage: page.x?.delete() for each Mat the page refers to
cleanupProcessedPage(ms, page) ==
    Delete(ms, {page[f] : f \in PageFields} \ {NULL})

(***************************************************************************)
(* The per-cell vectorizer: vectorizeCell and extractPathFromSvg.          *)
(* A traced path is described by its fill colour and by the area of its    *)
(* bounding box in 1/10000 of the traced image's area.                     *)
(***************************************************************************)
WhiteFills == {"rgb(255,255,255)", "white", "#fff", "#ffffff"}
BlackFills == {"rgb(0,0,0)", "black", "#000", "#000000"}

\* fill.includes('255') || fill === 'white' || fill === '#fff' || ...
isWhiteFill(fill) == fill \in WhiteFills

\* fill === 'rgb(0,0,0)' || fill === 'black' || ...
isBlackFill(fill) == fill \in BlackFills

\* The loop body of extractPathFromSvg for one path: "rejected", "outline"
\* or "hole".  With areas in 1/10000 of cellArea, area > cellArea * 0.85 is
\* area > 8500, area < cellArea * 0.0001 is area < 1 and
\* area < cellArea * 0.6 is area < 6000.
ClassifyPath(p) ==
    IF p.area > 8500 /\ isBlackFill(p.fill) THEN "rejected"
    ELSE IF p.area < 1 THEN "rejected"
    ELSE IF isWhiteFill(p.fill) THEN "outline"
    ELSE IF isBlackFill(p.fill) /\ p.area < 6000 THEN "hole"
    ELSE "outline"

IsOutlinePath(p) == ClassifyPath(p) = "outline"
IsHolePath(p) == ClassifyPath(p) = "hole"

\* extractPathFromSvg: the {outlines, holes} envelope it serializes
extractPathFromSvg(paths) ==
    [json |-> TRUE,
     outlines |-> SelectSeq(paths, IsOutlinePath),
     holes |-> SelectSeq(paths, IsHolePath)]

\* temp.querySelector('svg') found nothing: the empty string
EmptyPathData == [json |-> FALSE, outlines |-> <<>>, holes |-> <<>>]

\* pathData.length, from below: '' has length 0; JSON.stringify({outlines,
\* holes}) has the 26 characters of {"outlines":[],"holes":[]} and at least
\* one more for every path it lists.
EnvelopeLength == 26

PathDataLength(pd) ==
    IF pd.json
    THEN EnvelopeLength + Len(pd.outlines) + Len(pd.holes)
    ELSE 0

Background == [fill |-> "rgb(0,0,0)", area |-> 10000]
Ink == [fill |-> "rgb(255,255,255)", area |-> 4000]
WideInk == [fill |-> "rgb(255,255,255)", area |-> 9000]
Counter == [fill |-> "rgb(0,0,0)", area |-> 1000]
Dust == [fill |-> "rgb(255,255,255)", area |-> 0]

\* What a cell mask can be: no ink, ink confined to one row or column, or
\* ink with an extent; and what the tracer then returns.
CellInputs ==
    {[ink |-> "none", tracer |-> "unused", paths |-> <<>>],
     [ink |-> "line", tracer |-> "unused", paths |-> <<>>],
     [ink |-> "area", tracer |-> "throws", paths |-> <<>>],
     [ink |-> "area", tracer |-> "nosvg", paths |-> <<>>]}
    \cup
    {[ink |-> "area", tracer |-> "ok", paths |-> ps] :
        ps \in {<<Background>>, <<Background, Ink>>,
                <<Background, Ink, Counter>>, <<WideInk>>,
                <<Background, Dust>>}}

\* vectorizeCell: {svgPath, isEmpty}
vectorizeCell(cell) ==
    IF cell.ink # "area"
    THEN [svgPath |-> EmptyPathData, isEmpty |-> TRUE]
    ELSE IF cell.tracer = "throws"
    THEN [svgPath |-> EmptyPathData, isEmpty |-> TRUE]
    ELSE LET pathData == IF cell.tracer = "nosvg"
                         THEN EmptyPathData
                         ELSE extractPathFromSvg(cell.paths)
         IN [svgPath |-> pathData, isEmpty |-> PathDataLength(pathData) = 0]

(***************************************************************************)
(* The blank-template cache (src/lib/template/BlankTemplateRenderer.ts).   *)
(***************************************************************************)
Digits == <<"0", "1", "2", "3", "4", "5", "6", "7", "8", "9">>

\* `${n}` for a non-negative integer n
RECURSIVE NumberToString(_)
NumberToString(n) ==
    IF n < 10
    THEN Digits[n + 1]
    ELSE NumberToString(n \div 10) \o Digits[(n % 10) + 1]

\* Mutant of cacheKey: the character set is left out of the key.
cacheKey_NoCharacterSet(config, pageNumber, characterSet) ==
    config.pageSize \o "-" \o NumberToString(config.cellsPerRow) \o "-"
        \o NumberToString(config.rowsPerPage) \o "-"
        \o NumberToString(config.dpi) \o "-"
        \o NumberToString(pageNumber)

\* const cacheKey = `${config.pageSize}-${config.cellsPerRow}-...`
cacheKey(config, pageNumber, characterSet) ==
    config.pageSize \o "-" \o NumberToString(config.cellsPerRow) \o "-"
        \o NumberToString(config.rowsPerPage) \o "-"
        \o NumberToString(config.dpi) \o "-"
        \o NumberToString(pageNumber) \o "-" \o characterSet

\* The tuple a template image is rendered from.
TemplateTuple(config, pageNumber, characterSet) ==
    [pageSize |-> config.pageSize, cellsPerRow |-> config.cellsPerRow,
     rowsPerPage |-> config.rowsPerPage, dpi |-> config.dpi,
     pageNumber |-> pageNumber, characterSet |-> characterSet]

\* renderBlankTemplate returns a new ImageData object, the id-th one made,
\* whose pixels are determined by the tuple.
renderBlankTemplate(config, pageNumber, characterSet, id) ==
    [id |-> id, of |-> TemplateTuple(config, pageNumber, characterSet)]

VARIABLES
    templateCache,  \* Map<string, ImageData>: a function on the keys present
    renderCalls,    \* tuples renderBlankTemplate was called with since the
                    \* cache was last cleared, in order
    renderCount,    \* how many ImageData objects renderBlankTemplate has made
    lastGet         \* the latest getBlankTemplate call and what it returned

cacheVars == <<templateCache, renderCalls, renderCount, lastGet>>

EmptyCache == [k \in {} |-> NullRecord]

NoGet == [tuple |-> NullRecord, image |-> NullRecord, rendered |-> FALSE]

CacheInit ==
    /\ templateCache = EmptyCache
    /\ renderCalls = <<>>
    /\ renderCount = 0
    /\ lastGet = NoGet

\* templateCache.has(cacheKey)
CacheHas(key) == key \in DOMAIN templateCache

\* The body of getBlankTemplate.
getBlankTemplate(config, pageNumber, characterSet) ==
    LET key == cacheKey(config, pageNumber, characterSet)
        tuple == TemplateTuple(config, pageNumber, characterSet)
    IN IF CacheHas(key)
       THEN /\ lastGet' = [tuple |-> tuple, image |-> templateCache[key],
                           rendered |-> FALSE]
            /\ UNCHANGED <<templateCache, renderCalls, renderCount>>
       ELSE LET imageData == renderBlankTemplate(config, pageNumber,
                                 characterSet, renderCount + 1)
            IN /\ templateCache' =
                      [k \in DOMAIN templateCache \cup {key} |->
                          IF k = key THEN imageData ELSE templateCache[k]]
               /\ renderCalls' = Append(renderCalls, tuple)
               /\ renderCount' = renderCount + 1
               /\ lastGet' = [tuple |-> tuple, image |-> imageData,
                              rendered |-> TRUE]

(***************************************************************************)
(* State of the stages that are exercised on their own: glyph              *)
(* normalisation, blank-template drawing and mask morphology.              *)
(***************************************************************************)
VARIABLES
    normConfig,     \* the TemplateConfig of the page whose cell is normalised
    traced,         \* vectorizeCell's result for the cell
    normalized      \* templateNormalize's result for the cell

normVars == <<normConfig, traced, normalized>>

VARIABLES
    renderPc,       \* position inside renderBlankTemplate
    renderArgs,     \* its arguments: config, pageNumber, characterSet
    coords,         \* getTemplateCoordinates(config)
    drawIdx,       \* the cell of the page that is drawn next
    canvas          \* the drawing operations issued on the canvas, in order

renderVars == <<renderPc, renderArgs, coords, drawIdx, canvas>>

VARIABLES
    binaryMat,      \* the correctly polarised mask (ink=255, background=0)
    kernelSizes,    \* [closeSize, openSize] passed to morphologicalCleanup
    cleanedDirect,  \* morphologicalCleanup(binaryMat, ...)
    cleanedInverted \* morphologicalCleanup(bitwise_not(binaryMat), ...)

morphVars == <<binaryMat, kernelSizes, cleanedDirect, cleanedInverted>>

\* ---- variables of the stroke pipeline and of the path utilities ----
\* ink polarity (ensureForegroundInk, ensureInkIsWhite)
VARIABLES
    binaryMask,  \* the binary mask handed to the polarity functions
    prepared,    \* ensureForegroundInk(binaryMask, true)
    flipped      \* ensureInkIsWhite(binaryMask)

polarityVars == <<binaryMask, prepared, flipped>>

PolarityIdle ==
    /\ binaryMask = NullRecord
    /\ prepared = NullRecord
    /\ flipped = NullRecord

\* zhangSuenThinning
VARIABLES
    thinPc,      \* position inside zhangSuenThinning: idle, loop, done
    thinInput,   \* its argument
    thinGrid,    \* the binary grid (grid), by <<x, y>>: 1 is ink
    changed,     \* the loop flag
    iterations,  \* the iteration counter
    removed,     \* the number of pixels each iteration removed (history)
    skeleton     \* the returned ImageData

thinVars == <<thinPc, thinInput, thinGrid, changed, iterations, removed, skeleton>>

ThinIdle ==
    /\ thinPc = "idle"
    /\ thinInput = NullRecord
    /\ thinGrid = NullRecord
    /\ changed = FALSE
    /\ iterations = 0
    /\ removed = <<>>
    /\ skeleton = NullRecord

\* weldEndpoints
VARIABLES
    weldArgs,  \* the arguments of weldEndpoints: strokes, weldRadius
    welded     \* the strokes it returned, in units of 1/WeldScale pixel

weldVars == <<weldArgs, welded>>

WeldIdle ==
    /\ weldArgs = NullRecord
    /\ welded = NullRecord

\* Douglas-Peucker (simplifyStroke, simplifyPath)
VARIABLES
    dpArgs,       \* the arguments: points, epsilon (a fraction num/den)
    strokeOnce,   \* simplifyStroke(points, epsilon)
    strokeTwice,  \* simplifyStroke of strokeOnce
    pathOnce,     \* simplifyPath(points, epsilon)
    pathTwice     \* simplifyPath of pathOnce

simplifyVars == <<dpArgs, strokeOnce, strokeTwice, pathOnce, pathTwice>>

SimplifyIdle ==
    /\ dpArgs = NullRecord
    /\ strokeOnce = NullRecord
    /\ strokeTwice = NullRecord
    /\ pathOnce = NullRecord
    /\ pathTwice = NullRecord

\* contour winding (calculateSignedArea, reverseContour)
VARIABLES
    contour,          \* the commands of one closed contour
    reversedContour   \* reverseContour(contour)

contourVars == <<contour, reversedContour>>

ContourIdle ==
    /\ contour = NullRecord
    /\ reversedContour = NullRecord

\* processMonoline (with binaryMask, prepared and skeleton above)
VARIABLES
    monoPc,            \* position inside processMonoline
    monoOptions,       \* its options argument: the fields that are defined
    stats,             \* analyzeSkeletonImage(skeleton)
    rawStrokes,        \* extractStrokesFromSkeleton(skeleton)
    strokes,           \* the strokes being joined and pruned
    passes,            \* the join passes made
    prevCount,         \* the number of strokes before the pass
    joined,            \* the strokes when the join step ended (history)
    smoothedStrokes,   \* the smoothed and simplified strokes, in 1/SmoothScale pixel
    weldedStrokes,     \* the welded strokes, in 1/(SmoothScale * WeldScale) pixel
    nearAfterWelding   \* countNearbyEndpoints(weldedStrokes, 3)

monoVars == <<monoPc, monoOptions, stats, rawStrokes, strokes, passes, prevCount, joined, smoothedStrokes, weldedStrokes, nearAfterWelding>>

MonoIdle ==
    /\ monoPc = "idle"
    /\ monoOptions = NullRecord
    /\ stats = NullRecord
    /\ rawStrokes = <<>>
    /\ strokes = <<>>
    /\ passes = 0
    /\ prevCount = 0
    /\ joined = <<>>
    /\ smoothedStrokes = <<>>
    /\ weldedStrokes = <<>>
    /\ nearAfterWelding = 0

\* removeSmallComponents
VARIABLES
    ccArgs,    \* the arguments: binaryMat, minArea, rejectTopFraction (in hundredths)
    ccResult   \* the mask it returned

componentVars == <<ccArgs, ccResult>>

ComponentIdle ==
    /\ ccArgs = NullRecord
    /\ ccResult = NullRecord

\* the bounding-box filter of extractPathFromSvg
VARIABLES
    tracedPaths,  \* the paths of the traced SVG: fill and bounding-box area
    envelope      \* the {outlines, holes} envelope extractPathFromSvg returned

filterVars == <<tracedPaths, envelope>>

FilterIdle ==
    /\ tracedPaths = NullRecord
    /\ envelope = NullRecord

\* normalizedSvgToOpentypePath on a {outlines, holes} input
VARIABLES
    otPc,       \* position inside normalizedSvgToOpentypePath
    otInput,    \* the parsed input: outlinePaths and holePaths, each path its commands
    otIdx,      \* the index of the path the current loop is at
    otPath,     \* the commands of the opentype.Path
    otEmitted   \* one record per emitted contour: its role, path, subpath and commands (history)

opentypeVars == <<otPc, otInput, otIdx, otPath, otEmitted>>

OpentypeIdle ==
    /\ otPc = "idle"
    /\ otInput = NullRecord
    /\ otIdx = 0
    /\ otPath = <<>>
    /\ otEmitted = <<>>

\* one pass of the loop of zhangSuenThinning, sub-iteration by sub-iteration
VARIABLES
    passPc,        \* position inside the pass
    passStart,     \* the grid when sub-iteration 1 started, by <<x, y>>
    markedFirst,   \* the pixels sub-iteration 1 marked
    passMid,       \* the grid when sub-iteration 2 started
    markedSecond,  \* the pixels sub-iteration 2 marked
    passEnd        \* the grid after the pass

passVars == <<passPc, passStart, markedFirst, passMid, markedSecond, passEnd>>

PassIdle ==
    /\ passPc = "idle"
    /\ passStart = NullRecord
    /\ markedFirst = {}
    /\ passMid = NullRecord
    /\ markedSecond = {}
    /\ passEnd = NullRecord

\* loadOpenCV: the module-level flag and promise, the document and the runtime
VARIABLES
    hasWindow,      \* typeof window !== "undefined"
    windowCv,       \* window.cv: "none" (undefined), "module" (defined, cv.Mat not yet) or "ready" (cv.Mat defined)
    cvReady,        \* the module-level flag cvReady
    cvLoadPromise,  \* the module-level promise: NullRecord, or its number, state and reason
    scripts,        \* the script elements appended to document.head, each "loading", "loaded" or "error"
    timerArmed,     \* setTimeout(checkReady, 50) is pending
    polls,          \* how many times checkReady found cv.Mat missing, modulo MaxPolls + 1 (history)
    loadCalls       \* one record per loadOpenCV call: what it returned (history)

loaderVars == <<hasWindow, windowCv, cvReady, cvLoadPromise, scripts, timerArmed, polls, loadCalls>>

LoaderIdle ==
    /\ hasWindow = TRUE
    /\ windowCv = "none"
    /\ cvReady = FALSE
    /\ cvLoadPromise = NullRecord
    /\ scripts = <<>>
    /\ timerArmed = FALSE
    /\ polls = 0
    /\ loadCalls = <<>>

\* the font store (fontStore.ts) and the state of the draw page
VARIABLES
    storeGlyphs,            \* state.glyphs: per character its path, advanceWidth and isComplete; <<>> before the store is created
    currentCharacterIndex,  \* state.currentCharacterIndex (0-based)
    currentSvgPath,         \* the draw page's currentSvgPath: the x coordinates of the drawn path, <<>> for ''
    pathWidth               \* per character, the width that belongs to the path it holds now, 0 without a path (history)

storeVars == <<storeGlyphs, currentCharacterIndex, currentSvgPath, pathWidth>>

StoreIdle ==
    /\ storeGlyphs = <<>>
    /\ currentCharacterIndex = 0
    /\ currentSvgPath = <<>>
    /\ pathWidth = <<>>

\* the upload page (upload/page.tsx): its React state and the processCurrentPage calls in flight
VARIABLES
    uploadState,     \* state: 'idle', 'loading', 'ready', 'processing', 'done' or 'error'
    fileType,        \* fileType: 'image' or 'pdf'
    pdfPages,        \* pdfPages.length
    currentPdfPage,  \* currentPdfPage (0-based)
    inFlight,        \* the page index captured by each processCurrentPage call that awaits its result
    started,         \* how many processCurrentPage calls were started (history)
    savedFrom        \* the page whose glyphs were written to the store last, -1 before any (history)

uploadVars == <<uploadState, fileType, pdfPages, currentPdfPage, inFlight, started, savedFrom>>

UploadIdle ==
    /\ uploadState = "idle"
    /\ fileType = "image"
    /\ pdfPages = 0
    /\ currentPdfPage = 0
    /\ inFlight = <<>>
    /\ started = 0
    /\ savedFrom = -1

stageVars == <<polarityVars, thinVars, weldVars, simplifyVars, contourVars, monoVars, componentVars, filterVars, opentypeVars, passVars, loaderVars, storeVars, uploadVars>>

StageIdle ==
    /\ PolarityIdle
    /\ ThinIdle
    /\ WeldIdle
    /\ SimplifyIdle
    /\ ContourIdle
    /\ MonoIdle
    /\ ComponentIdle
    /\ FilterIdle
    /\ OpentypeIdle
    /\ PassIdle
    /\ LoaderIdle
    /\ StoreIdle
    /\ UploadIdle

\* every variable outside polarityVars
polarityRest == <<pipeVars, cacheVars, normVars, renderVars, morphVars, thinVars, weldVars, simplifyVars, contourVars, monoVars, componentVars, filterVars, opentypeVars, passVars, loaderVars, storeVars, uploadVars>>

\* every variable outside thinVars
thinRest == <<pipeVars, cacheVars, normVars, renderVars, morphVars, polarityVars, weldVars, simplifyVars, contourVars, monoVars, componentVars, filterVars, opentypeVars, passVars, loaderVars, storeVars, uploadVars>>

\* every variable outside weldVars
weldRest == <<pipeVars, cacheVars, normVars, renderVars, morphVars, polarityVars, thinVars, simplifyVars, contourVars, monoVars, componentVars, filterVars, opentypeVars, passVars, loaderVars, storeVars, uploadVars>>

\* every variable outside simplifyVars
simplifyRest == <<pipeVars, cacheVars, normVars, renderVars, morphVars, polarityVars, thinVars, weldVars, contourVars, monoVars, componentVars, filterVars, opentypeVars, passVars, loaderVars, storeVars, uploadVars>>

\* every variable outside contourVars
contourRest == <<pipeVars, cacheVars, normVars, renderVars, morphVars, polarityVars, thinVars, weldVars, simplifyVars, monoVars, componentVars, filterVars, opentypeVars, passVars, loaderVars, storeVars, uploadVars>>

\* every variable outside monoVars
monoRest == <<pipeVars, cacheVars, normVars, renderVars, morphVars, polarityVars, thinVars, weldVars, simplifyVars, contourVars, componentVars, filterVars, opentypeVars, passVars, loaderVars, storeVars, uploadVars>>

\* every variable outside componentVars
componentRest == <<pipeVars, cacheVars, normVars, renderVars, morphVars, polarityVars, thinVars, weldVars, simplifyVars, contourVars, monoVars, filterVars, opentypeVars, passVars, loaderVars, storeVars, uploadVars>>

\* every variable outside filterVars
filterRest == <<pipeVars, cacheVars, normVars, renderVars, morphVars, polarityVars, thinVars, weldVars, simplifyVars, contourVars, monoVars, componentVars, opentypeVars, passVars, loaderVars, storeVars, uploadVars>>

\* every variable outside opentypeVars
opentypeRest == <<pipeVars, cacheVars, normVars, renderVars, morphVars, polarityVars, thinVars, weldVars, simplifyVars, contourVars, monoVars, componentVars, filterVars, passVars, loaderVars, storeVars, uploadVars>>

\* every variable outside passVars
passRest == <<pipeVars, cacheVars, normVars, renderVars, morphVars, polarityVars, thinVars, weldVars, simplifyVars, contourVars, monoVars, componentVars, filterVars, opentypeVars, loaderVars, storeVars, uploadVars>>

\* every variable outside loaderVars
loaderRest == <<pipeVars, cacheVars, normVars, renderVars, morphVars, polarityVars, thinVars, weldVars, simplifyVars, contourVars, monoVars, componentVars, filterVars, opentypeVars, passVars, storeVars, uploadVars>>

\* every variable outside storeVars
storeRest == <<pipeVars, cacheVars, normVars, renderVars, morphVars, polarityVars, thinVars, weldVars, simplifyVars, contourVars, monoVars, componentVars, filterVars, opentypeVars, passVars, loaderVars, uploadVars>>

\* every variable outside uploadVars
uploadRest == <<pipeVars, cacheVars, normVars, renderVars, morphVars, polarityVars, thinVars, weldVars, simplifyVars, contourVars, monoVars, componentVars, filterVars, opentypeVars, passVars, loaderVars, storeVars>>

\* every variable that processMonoline leaves alone
monoOutside == <<pipeVars, cacheVars, normVars, renderVars, morphVars, weldVars, simplifyVars, contourVars, componentVars, filterVars, opentypeVars, passVars, loaderVars, storeVars, uploadVars,
                 flipped, thinPc, thinInput, thinGrid, changed, iterations, removed>>
\* ---- end of the stroke and path variables ----

auxVars == <<normVars, renderVars, morphVars, stageVars>>

NormIdle ==
    /\ normConfig = NullRecord
    /\ traced = NullRecord
    /\ normalized = NullRecord

RenderIdle ==
    /\ renderPc = "idle"
    /\ renderArgs = NullRecord
    /\ coords = NullRecord
    /\ drawIdx = 0
    /\ canvas = <<>>

MorphIdle ==
    /\ binaryMat = NullRecord
    /\ kernelSizes = NullRecord
    /\ cleanedDirect = NullRecord
    /\ cleanedInverted = NullRecord

vars == <<pipeVars, cacheVars, auxVars>>

(***************************************************************************)
(* processTemplatePage (src/lib/image/TemplateProcessor.ts, lines 74-276). *)
(***************************************************************************)
NoResult ==
    [success |-> FALSE, glyphs |-> <<>>,
     debugImages |-> [warped |-> NULL, subtracted |-> NULL,
                      cleaned |-> NULL, thresholded |-> NULL],
     markers |-> NullRecord, error |-> NULL]

NotThrown == [value |-> NoThrow, stage |-> "none", cell |-> -1]

PipeInit ==
    /\ pc \in {"start", "validate"}
    /\ opts \in ProcessingOptions
    /\ i = 0
    /\ processed = NullRecord
    /\ result = NoResult
    /\ validation = NullRecord
    /\ mats = NoMats
    /\ progressLog = <<>>
    /\ extracted = <<>>
    /\ thrown = NotThrown

\* The pipeline variables of a specification that runs no pipeline.
PipeIdle ==
    /\ pc = "idle"
    /\ opts = NullRecord
    /\ i = 0
    /\ processed = NullRecord
    /\ result = NoResult
    /\ validation = NullRecord
    /\ mats = NoMats
    /\ progressLog = <<>>
    /\ extracted = <<>>
    /\ thrown = NotThrown

cellsPerPage(config) == config.cellsPerRow * config.rowsPerPage

startIdx(o) == o.pageNumber * cellsPerPage(o.config)

endIdx(o) ==
    Min(startIdx(o) + cellsPerPage(o.config), Len(Characters(o.characterSet)))

\* Mutant of RowOf: divides by the number of rows instead of the row length.
RowOf_ByRows(localIdx, config) == localIdx \div config.rowsPerPage

\* const row = Math.floor(localIdx / config.cellsPerRow)
RowOf(localIdx, config) == localIdx \div config.cellsPerRow

\* const col = localIdx % config.cellsPerRow
ColOf(localIdx, config) == localIdx % config.cellsPerRow

\* onProgress?.(stage, progress): the callback returns, or throws a value.
ProgressOutcomes ==
    {NoThrow} \cup (IF opts.hasProgress THEN ThrowValues ELSE {})

Logged(stage, cell) ==
    IF opts.hasProgress
    THEN Append(progressLog, [stage |-> stage, cell |-> cell])
    ELSE progressLog

\* result.error = err instanceof Error ? err.message : 'Unknown error'
CatchMessage(err) == IF err.isError THEN err.message ELSE "Unknown error"

\* The catch block, followed by return result.
EnterCatch(err, stage, cell) ==
    /\ result' = [result EXCEPT !.error = CatchMessage(err)]
    /\ thrown' = [value |-> err, stage |-> stage, cell |-> cell]
    /\ pc' = "returned"

\* reject(new Error('Failed to load OpenCV.js from CDN'))
LoadError ==
    [isError |-> TRUE, message |-> "Failed to load OpenCV.js from CDN"]

\* Step 1: onProgress('Loading OpenCV...', 0); await loadOpenCV()
Step_LoadOpenCV ==
    /\ pc = "start"
    /\ progressLog' = Logged("Loading OpenCV...", -1)
    /\ \E cb \in ProgressOutcomes :
          IF cb # NoThrow
          THEN EnterCatch(cb, "Loading OpenCV...", -1)
          ELSE \E loaded \in BOOLEAN :
                  IF loaded
                  THEN pc' = "prepare" /\ UNCHANGED <<result, thrown>>
                  ELSE EnterCatch(LoadError, "loadOpenCV", -1)
    /\ UNCHANGED <<opts, i, processed, validation, mats, extracted>>
    /\ UNCHANGED auxVars
    /\ UNCHANGED cacheVars

\* Step 2: onProgress('Preparing template...', 5); getTemplateCoordinates;
\* getBlankTemplate
Step_Prepare ==
    /\ pc = "prepare"
    /\ progressLog' = Logged("Preparing template...", -1)
    /\ \E cb \in ProgressOutcomes :
          IF cb # NoThrow
          THEN EnterCatch(cb, "Preparing template...", -1)
               /\ UNCHANGED cacheVars
          ELSE /\ getBlankTemplate(opts.config, opts.pageNumber,
                                   opts.characterSet)
               /\ pc' = "process"
               /\ UNCHANGED <<result, thrown>>
    /\ UNCHANGED <<opts, i, processed, validation, mats, extracted>>
    /\ UNCHANGED auxVars

\* detectCornerMarkers: which corners it found; success iff all four
DetectionResult(found) ==
    [found |-> found, success |-> (found = Corners),
     debugBinary |-> "debugBinary"]

\* processPage: the ProcessedPage it returns and the Mats it leaves behind.
\* Each field of the page names the Mat it refers to.
processPage(found) ==
    LET markers == DetectionResult(found)
        detected == Allocate(mats, {"scanMat", "templateMat", "debugBinary"})
    IN IF ~markers.success
       THEN [page |-> [warped |-> "warped", subtracted |-> "subtracted",
                       cleaned |-> "cleaned",
                       thresholded |-> markers.debugBinary,
                       markers |-> markers, homography |-> NULL],
             mats |-> Delete(Allocate(detected,
                                 {"warped", "subtracted", "cleaned"}),
                             {"scanMat", "templateMat"})]
       ELSE [page |-> [warped |-> "warped", subtracted |-> "subtracted",
                       cleaned |-> "cleaned",
                       thresholded |-> markers.debugBinary,
                       markers |-> markers, homography |-> "homography"],
             mats |-> Delete(Allocate(detected,
                                 {"homography", "warped", "subtracted",
                                  "cleaned"}),
                             {"scanMat", "templateMat"})]

\* Step 3: onProgress('Processing page...', 10); processed = await
\* processPage(...); result.markers = processed.markers
Step_ProcessPage ==
    /\ pc = "process"
    /\ progressLog' = Logged("Processing page...", -1)
    /\ \E cb \in ProgressOutcomes :
          IF cb # NoThrow
          THEN EnterCatch(cb, "Processing page...", -1)
               /\ UNCHANGED <<processed, mats>>
          ELSE \E found \in SUBSET Corners :
                  LET r == processPage(found)
                  IN /\ processed' = r.page
                     /\ mats' = r.mats
                     /\ result' = [result EXCEPT !.markers =
                                      [found |-> r.page.markers.found,
                                       success |-> r.page.markers.success]]
                     /\ pc' = "debug"
                     /\ UNCHANGED thrown
    /\ UNCHANGED <<opts, i, validation, extracted>>
    /\ UNCHANGED auxVars
    /\ UNCHANGED cacheVars

\* Mutant of DebugImages: the thresholded image only after a full detection.
DebugImages_OnlyOnSuccess(page) ==
    [warped |-> "ImageData", subtracted |-> "ImageData",
     cleaned |-> "ImageData",
     thresholded |-> IF page.markers.success THEN "ImageData" ELSE NULL]

\* matToImageData(processed.x) for the four debug images
DebugImages(page) ==
    [warped |-> "ImageData", subtracted |-> "ImageData",
     cleaned |-> "ImageData",
     thresholded |-> IF page.thresholded # NULL THEN "ImageData" ELSE NULL]

MarkerError ==
    "Failed to detect all 4 corner markers. Check the thresholded debug image."

\* onProgress('Generating debug images...', 30); the debug images; the
\* early return when the markers failed; else the set-up of the cell loop
Step_DebugImages ==
    /\ pc = "debug"
    /\ progressLog' = Logged("Generating debug images...", -1)
    /\ \E cb \in ProgressOutcomes :
          IF cb # NoThrow
          THEN EnterCatch(cb, "Generating debug images...", -1)
               /\ UNCHANGED <<mats, i>>
          ELSE IF ~processed.markers.success
          THEN /\ result' = [result EXCEPT
                                !.debugImages = DebugImages(processed),
                                !.error = MarkerError]
               /\ mats' = cleanupProcessedPage(mats, processed)
               /\ pc' = "returned"
               /\ UNCHANGED <<thrown, i>>
          ELSE /\ result' = [result EXCEPT
                                !.debugImages = DebugImages(processed)]
               /\ i' = startIdx(opts)
               /\ pc' = "loop"
               /\ UNCHANGED <<thrown, mats>>
    /\ UNCHANGED <<opts, processed, validation, extracted>>
    /\ UNCHANGED auxVars
    /\ UNCHANGED cacheVars

\* Mutant of Step_CellProgress: the throw is recorded, and the loop goes on.
Step_CellProgress_Swallow ==
    /\ pc = "loop"
    /\ i < endIdx(opts)
    /\ progressLog' = Logged("Extracting", i - startIdx(opts))
    /\ \E cb \in ProgressOutcomes :
          IF cb # NoThrow
          THEN /\ result' = [result EXCEPT !.error = CatchMessage(cb)]
               /\ thrown' = [value |-> cb, stage |-> "Extracting",
                             cell |-> i - startIdx(opts)]
               /\ pc' = "cell"
          ELSE pc' = "cell" /\ UNCHANGED <<result, thrown>>
    /\ UNCHANGED <<opts, i, processed, validation, mats, extracted>>
    /\ UNCHANGED auxVars
    /\ UNCHANGED cacheVars

\* Loop head and onProgress(`Extracting ${characters[i].character}...`)
Step_CellProgress ==
    /\ pc = "loop"
    /\ i < endIdx(opts)
    /\ progressLog' = Logged("Extracting", i - startIdx(opts))
    /\ \E cb \in ProgressOutcomes :
          IF cb # NoThrow
          THEN EnterCatch(cb, "Extracting", i - startIdx(opts))
          ELSE pc' = "cell" /\ UNCHANGED <<result, thrown>>
    /\ UNCHANGED <<opts, i, processed, validation, mats, extracted>>
    /\ UNCHANGED auxVars
    /\ UNCHANGED cacheVars

CellMats == {"cellMat", "cleanedCellMat", "warpedCellMat"}

\* The glyph pushed for cell (row, col); templateNormalize keeps every
\* outline and every hole of vectorResult.svgPath.
ExtractedGlyph(character, row, col, vectorResult) ==
    [character |-> character, row |-> row, col |-> col,
     svgPath |-> [outlines |-> vectorResult.svgPath.outlines,
                  holes |-> vectorResult.svgPath.holes]]

\* The rest of the loop body: extractCell, removeSmallComponents,
\* vectorizeCell, templateNormalize, result.glyphs.push
Step_ExtractCell ==
    /\ pc = "cell"
    /\ \E cell \in CellInputs :
          LET localIdx == i - startIdx(opts)
              row == RowOf(localIdx, opts.config)
              col == ColOf(localIdx, opts.config)
              vectorResult == vectorizeCell(cell)
          IN /\ extracted' = Append(extracted, [row |-> row, col |-> col])
             /\ result' =
                   IF ~vectorResult.isEmpty
                   THEN [result EXCEPT !.glyphs = Append(@,
                            ExtractedGlyph(
                                Characters(opts.characterSet)[i + 1],
                                row, col, vectorResult))]
                   ELSE result
    /\ mats' = Delete(Allocate(mats, CellMats), CellMats)
    /\ i' = i + 1
    /\ pc' = "loop"
    /\ UNCHANGED <<opts, processed, validation, progressLog, thrown>>
    /\ UNCHANGED auxVars
    /\ UNCHANGED cacheVars

\* After the loop: cleanupProcessedPage(processed); onProgress('Complete',
\* 100); result.success = true
Step_Finish ==
    /\ pc = "loop"
    /\ ~(i < endIdx(opts))
    /\ mats' = cleanupProcessedPage(mats, processed)
    /\ progressLog' = Logged("Complete", -1)
    /\ \E cb \in ProgressOutcomes :
          IF cb # NoThrow
          THEN EnterCatch(cb, "Complete", -1)
          ELSE /\ result' = [result EXCEPT !.success = TRUE]
               /\ pc' = "returned"
               /\ UNCHANGED thrown
    /\ UNCHANGED <<opts, i, processed, validation, extracted>>
    /\ UNCHANGED auxVars
    /\ UNCHANGED cacheVars

(***************************************************************************)
(* validateTemplateImage (TemplateProcessor.ts, lines 282-319).            *)
(***************************************************************************)
Validate ==
    /\ pc = "validate"
    /\ \E loaded \in BOOLEAN :
          IF ~loaded
          THEN /\ validation' = [valid |-> FALSE, found |-> {},
                                 message |-> CatchMessage(LoadError)]
               /\ UNCHANGED mats
          ELSE \E found \in SUBSET Corners :
                  LET markers == DetectionResult(found)
                  IN /\ mats' = Delete(Allocate(mats,
                                           {"mat", markers.debugBinary}),
                                       {"mat"})
                     /\ validation' =
                           [valid |-> markers.success, found |-> found,
                            message |-> IF markers.success
                                        THEN "All 4 corner markers detected"
                                        ELSE "Missing markers"]
    /\ pc' = "returned"
    /\ UNCHANGED <<opts, i, processed, result, progressLog, extracted, thrown>>
    /\ UNCHANGED auxVars
    /\ UNCHANGED cacheVars

Init == PipeInit /\ CacheInit /\ NormIdle /\ RenderIdle /\ MorphIdle /\ StageIdle

Next ==
    \/ Step_LoadOpenCV
    \/ Step_Prepare
    \/ Step_ProcessPage
    \/ Step_DebugImages
    \/ Step_CellProgress
    \/ Step_ExtractCell
    \/ Step_Finish
    \/ Validate

Spec == Init /\ [][Next]_vars

(***************************************************************************)
(* Properties of processTemplatePage and validateTemplateImage.            *)
(***************************************************************************)
Returned == pc = "returned"

\* The local index of the cell a glyph was extracted from.
CellIndex(glyph) == glyph.row * opts.config.cellsPerRow + glyph.col

\* C1: for every successful processTemplatePage invocation, result.glyphs is
\* ordered by strictly increasing cell index row * cellsPerRow + col, holds
\* at most one glyph per cell of the grid, and the glyph of cell (row, col)
\* carries characters[pageNumber * cellsPerRow * rowsPerPage
\* + row * cellsPerRow + col].
C1_RowMajorGlyphs ==
    (Returned /\ result.success) =>
        LET glyphs == result.glyphs
            config == opts.config
        IN \A k \in 1..Len(glyphs) :
              /\ glyphs[k].row \in 0..(config.rowsPerPage - 1)
              /\ glyphs[k].col \in 0..(config.cellsPerRow - 1)
              /\ k > 1 => CellIndex(glyphs[k - 1]) < CellIndex(glyphs[k])
              /\ \A j \in 1..Len(glyphs) :
                    CellIndex(glyphs[j]) = CellIndex(glyphs[k]) => j = k
              /\ glyphs[k].character =
                    Characters(opts.characterSet)[
                        opts.pageNumber * config.cellsPerRow
                            * config.rowsPerPage
                        + glyphs[k].row * config.cellsPerRow
                        + glyphs[k].col + 1]

\* A successful run over the second page of a 2 x 2 grid that produced a
\* glyph for three cells, the last one in the second row.
C1_Witness ==
    /\ Returned
    /\ result.success
    /\ opts.pageNumber = 1
    /\ opts.config.cellsPerRow = 2
    /\ opts.config.rowsPerPage = 2
    /\ Len(result.glyphs) = 3
    /\ result.glyphs[3].row = 1

\* C2: every glyph in result.glyphs has at least one outline contour: a
\* cell whose vectorization yields no outline path contributes no entry.
C2_EveryGlyphHasOutline ==
    \A k \in 1..Len(result.glyphs) :
        Len(result.glyphs[k].svgPath.outlines) >= 1

\* Marker detection ran and found fewer than four corner markers.
MarkersMissing == processed # NullRecord /\ ~processed.markers.success

\* What C3 promises of the returned result.
MarkerFailureResult ==
    /\ result.success = FALSE
    /\ result.error # NULL
    /\ result.error # ""
    /\ result.glyphs = <<>>
    /\ result.markers = [found |-> processed.markers.found, success |-> FALSE]
    /\ \A d \in {"warped", "subtracted", "cleaned", "thresholded"} :
          result.debugImages[d] # NULL
    /\ extracted = <<>>

C4_EveryMatDeletedOnce ==
    Returned => \A m \in MatNames : mats[m].deleted = mats[m].allocated

\* The onProgress callback threw when invoked for a cell of the loop.
ThrownAtCell == Returned /\ thrown.stage = "Extracting"

\* What C5 promises besides the error text: the cell the callback threw at
\* and the later cells were not extracted, the throwing invocation was the
\* last one, and the call returned with success=false.
AbortedAtCell ==
    /\ Len(extracted) = thrown.cell
    /\ \A k \in 1..Len(extracted) :
          extracted[k].row * opts.config.cellsPerRow + extracted[k].col
              < thrown.cell
    /\ progressLog[Len(progressLog)] =
          [stage |-> "Extracting", cell |-> thrown.cell]
    /\ result.success = FALSE
    /\ \A k \in 1..Len(result.glyphs) :
          CellIndex(result.glyphs[k]) < thrown.cell

\* C5 as stated: if onProgress throws when invoked for cell k, no further
\* cell is processed, no further callback is made, the call returns with
\* success=false and error set to the thrown message, and result.glyphs
\* holds no record for cell k or a later cell.
C5_AsStated ==
    ThrownAtCell => (AbortedAtCell /\ result.error = thrown.value.message)

\* C5 (amended): the same, with error set to the message of the thrown
\* Error, and to 'Unknown error' when the thrown value is not an Error.
C5_CallbackThrowAborts ==
    ThrownAtCell =>
        /\ AbortedAtCell
        /\ thrown.value.isError => result.error = thrown.value.message
        /\ ~thrown.value.isError => result.error = "Unknown error"

\* The callback threw an Error at the third cell, after two glyphs.
C5_Witness ==
    /\ ThrownAtCell
    /\ thrown.cell = 2
    /\ thrown.value.isError
    /\ Len(result.glyphs) = 2

(***************************************************************************)
(* SpecCache: any sequence of getBlankTemplate and clearTemplateCache      *)
(* calls (BlankTemplateRenderer.ts, lines 198-225).                        *)
(***************************************************************************)
MaxRenders == 3      \* renderBlankTemplate runs at most MaxRenders times

BaseRequest ==
    [config |-> [pageSize |-> "letter", cellsPerRow |-> 1,
                 rowsPerPage |-> 11, dpi |-> 150],
     pageNumber |-> 1, characterSet |-> "required"]

\* The requests made of the cache: a base request, requests that differ
\* from it in one field, and requests whose fields have the same digits in
\* a row as those of the base request.
TemplateRequests ==
    {BaseRequest,
     [BaseRequest EXCEPT !.config.pageSize = "a4"],
     [BaseRequest EXCEPT !.config.cellsPerRow = 11, !.config.rowsPerPage = 1],
     [BaseRequest EXCEPT !.config.rowsPerPage = 1, !.config.dpi = 1150],
     [BaseRequest EXCEPT !.config.dpi = 15, !.pageNumber = 1],
     [BaseRequest EXCEPT !.config.dpi = 1501, !.pageNumber = 0],
     [BaseRequest EXCEPT !.pageNumber = 0],
     [BaseRequest EXCEPT !.characterSet = "all"]}

GetBlankTemplate ==
    /\ \E r \in TemplateRequests :
          /\ \/ CacheHas(cacheKey(r.config, r.pageNumber, r.characterSet))
             \/ renderCount < MaxRenders
          /\ getBlankTemplate(r.config, r.pageNumber, r.characterSet)
    /\ UNCHANGED <<pipeVars, auxVars>>

\* clearTemplateCache: templateCache.clear()
ClearTemplateCache ==
    /\ templateCache' = EmptyCache
    /\ renderCalls' = <<>>
    /\ lastGet' = NoGet
    /\ UNCHANGED renderCount
    /\ UNCHANGED <<pipeVars, auxVars>>

CacheSpecInit ==
    CacheInit /\ PipeIdle /\ NormIdle /\ RenderIdle /\ MorphIdle /\ StageIdle

CacheNext == GetBlankTemplate \/ ClearTemplateCache

SpecCache == CacheSpecInit /\ [][CacheNext]_vars

\* C6: between two clears renderBlankTemplate is invoked at most once per
\* distinct tuple; a get returns the image rendered for its own tuple, and
\* a repeated get the very image the first get stored; the cache holds one
\* entry per tuple rendered since the last clear, so none after a clear,
\* and the first get after a clear renders again.
C6_CachePerTuple ==
    /\ \A j, k \in 1..Len(renderCalls) :
          renderCalls[j] = renderCalls[k] => j = k
    /\ Cardinality(DOMAIN templateCache) = Len(renderCalls)
    /\ lastGet # NoGet =>
          /\ lastGet.image.of = lastGet.tuple
          /\ \E k \in 1..Len(renderCalls) :
                /\ renderCalls[k] = lastGet.tuple
                /\ lastGet.image.id = renderCount - Len(renderCalls) + k
          /\ lastGet.rendered =>
                /\ renderCalls[Len(renderCalls)] = lastGet.tuple
                /\ lastGet.image.id = renderCount

\* A tuple rendered before a clear was rendered again after it, and a
\* later get of another tuple rendered since was served from the cache.
C6_Witness ==
    /\ renderCount = 3
    /\ Len(renderCalls) = 2
    /\ ~lastGet.rendered
    /\ lastGet.image.id = 2
    /\ lastGet.tuple.characterSet = "all"

(***************************************************************************)
(* Template geometry (src/lib/template/TemplateDefinition.ts).             *)
(* Page sizes are kept in tenths of a millimetre, so that 215.9 mm and     *)
(* the 25.4 mm of an inch are integers.                                    *)
(***************************************************************************)
\* Math.round(num / den) for den > 0: the nearest integer, a tie upwards
RoundDiv(num, den) ==
    LET q == num \div den
        r == num % den
    IN IF 2 * r >= den THEN q + 1 ELSE q

\* Number.prototype.toFixed(1) of num / den, in tenths: the nearest tenth,
\* a tie away from zero
ToFixed1(num, den) ==
    IF num >= 0 THEN RoundDiv(10 * num, den) ELSE 0 - RoundDiv(0 - 10 * num, den)

\* tenths of a millimetre
PAGE_SIZES_MM ==
    [letter |-> [width |-> 2159, height |-> 2794],
     a4 |-> [width |-> 2100, height |-> 2970]]

\* millimetres
MARGINS_MM == [top |-> 25, bottom |-> 20, left |-> 15, right |-> 15]

MARKER_SIZE_MM == 8
MARKER_OFFSET_MM == 2

\* Math.round((mm / 25.4) * dpi), the length given in tenths of a mm
mmToPixels(mmTenths, dpi) == RoundDiv(mmTenths * dpi, 254)

\* getTemplateCoordinates.  Pixel lengths that the code divides are kept
\* exact: marker centres in quarters of a pixel, cellWidth and cellHeight
\* as fractions, and the cell guides in 1/(100 * rowsPerPage) of a pixel.
getTemplateCoordinates(config) ==
    LET pageMm == PAGE_SIZES_MM[config.pageSize]
        dpi == config.dpi
        pageWidth == mmToPixels(pageMm.width, dpi)
        pageHeight == mmToPixels(pageMm.height, dpi)
        margins == [top |-> mmToPixels(10 * MARGINS_MM.top, dpi),
                    bottom |-> mmToPixels(10 * MARGINS_MM.bottom, dpi),
                    left |-> mmToPixels(10 * MARGINS_MM.left, dpi),
                    right |-> mmToPixels(10 * MARGINS_MM.right, dpi)]
        contentWidth == pageWidth - margins.left - margins.right
        contentHeight == pageHeight - margins.top - margins.bottom
        markerSize == mmToPixels(10 * MARKER_SIZE_MM, dpi)
        markerOffset == mmToPixels(10 * MARKER_OFFSET_MM, dpi)
        \* markerHalfSize = markerSize / 2 is 2 * markerSize quarters
        nearX == 4 * (margins.left - markerOffset) - 2 * markerSize
        farX == 4 * (pageWidth - margins.right + markerOffset)
                    + 2 * markerSize
        nearY == 4 * (margins.top - markerOffset) - 2 * markerSize
        farY == 4 * (pageHeight - margins.bottom + markerOffset)
                    + 2 * markerSize
    IN [pageWidth |-> pageWidth,
        pageHeight |-> pageHeight,
        margins |-> margins,
        markers |-> [topLeft |-> [x |-> nearX, y |-> nearY],
                     topRight |-> [x |-> farX, y |-> nearY],
                     bottomLeft |-> [x |-> nearX, y |-> farY],
                     bottomRight |-> [x |-> farX, y |-> farY]],
        grid |-> [cellsPerRow |-> config.cellsPerRow,
                  rowsPerPage |-> config.rowsPerPage,
                  cellWidth |-> [num |-> contentWidth,
                                 den |-> config.cellsPerRow],
                  cellHeight |-> [num |-> contentHeight,
                                  den |-> config.rowsPerPage],
                  startX |-> margins.left,
                  startY |-> margins.top],
        cellGuides |-> [labelTop |-> 18 * contentHeight,
                        baseline |-> 75 * contentHeight,
                        xHeight |-> 45 * contentHeight,
                        capHeight |-> 25 * contentHeight,
                        descender |-> 90 * contentHeight]]

\* How many units of the cell guides make one pixel
GuideUnits(templateCoords) == 100 * templateCoords.grid.rowsPerPage

\* getCellWritingArea + extractCell: the size in pixels of the image cut
\* out for a cell, Math.round(cell.width - padding * 2) by
\* Math.round(cell.height - labelHeight - padding) with padding = 4
CellImageSize(templateCoords) ==
    LET grid == templateCoords.grid
    IN [width |-> RoundDiv(grid.cellWidth.num - 8 * grid.cellWidth.den,
                           grid.cellWidth.den),
        height |-> RoundDiv(100 * grid.cellHeight.num
                                - templateCoords.cellGuides.labelTop
                                - 4 * GuideUnits(templateCoords),
                            GuideUnits(templateCoords))]

\* processTemplatePage: the template guides in writing-area coordinates,
\* in the units of the cell guides
templateGuides(templateCoords) ==
    LET labelTop == templateCoords.cellGuides.labelTop
    IN [baseline |-> templateCoords.cellGuides.baseline - labelTop,
        capHeight |-> templateCoords.cellGuides.capHeight - labelTop,
        xHeight |-> templateCoords.cellGuides.xHeight - labelTop,
        descender |-> templateCoords.cellGuides.descender - labelTop,
        writingAreaHeight |-> 100 * templateCoords.grid.cellHeight.num
                                  - labelTop
                                  - 4 * GuideUnits(templateCoords)]

(***************************************************************************)
(* Glyph normalisation: vectorizeCell's bounds and templateNormalize       *)
(* (CleanVectorizer).  A path is a sequence of commands [type, x, y]; the  *)
(* paths that reach templateNormalize come from pointsToSvgPath, which     *)
(* writes only M, L and Z with two decimals, so path coordinates are kept  *)
(* in hundredths of a pixel.                                               *)
(***************************************************************************)
FONT_BASELINE == 0
FONT_CAP_HEIGHT == 700
FONT_DESCENDER == -200
FONT_ASCENDER == 800
LEFT_SIDE_BEARING == 10
RIGHT_SIDE_BEARING == 10

ClosePath == [type |-> "Z", x |-> 0, y |-> 0]

SetMin(S) == CHOOSE m \in S : \A n \in S : m <= n
SetMax(S) == CHOOSE m \in S : \A n \in S : m >= n

\* The x (or y) coordinates of the points of a path
PathXs(path) == {path[k].x : k \in {j \in 1..Len(path) : path[j].type # "Z"}}
PathYs(path) == {path[k].y : k \in {j \in 1..Len(path) : path[j].type # "Z"}}

\* vectorizeCell, lines 432-473: the bounds of the white pixels of a mask
\* whose ink fills the polygon `ink` (hundredths of a pixel, writing-area
\* coordinates), padded by 2 and clipped to the image
ContentBounds(ink, size) ==
    LET minX == SetMin(PathXs(ink)) \div 100
        minY == SetMin(PathYs(ink)) \div 100
        maxX == Min(size.width - 1, (SetMax(PathXs(ink)) + 99) \div 100 - 1)
        maxY == Min(size.height - 1, (SetMax(PathYs(ink)) + 99) \div 100 - 1)
        hasContent == maxX >= minX /\ maxY >= minY
        padding == 2
        left == Max(0, minX - padding)
        top == Max(0, minY - padding)
        right == Min(size.width - 1, maxX + padding)
        bottom == Min(size.height - 1, maxY + padding)
    IN IF ~hasContent \/ maxX <= minX \/ maxY <= minY
       THEN [x |-> 0, y |-> 0, width |-> 0, height |-> 0]
       ELSE [x |-> left, y |-> top,
             width |-> right - left + 1, height |-> bottom - top + 1]

\* The outline traced from the cropped image: the polygon in the
\* coordinates of the crop
CroppedOutline(ink, bounds) ==
    [k \in 1..Len(ink) |->
        IF ink[k].type = "Z"
        THEN ink[k]
        ELSE [type |-> ink[k].type,
              x |-> ink[k].x - 100 * bounds.x,
              y |-> ink[k].y - 100 * bounds.y]]

\* vectorizeCell for a mask whose ink is one polygon without a counter
VectorizeInk(ink, size) ==
    LET bounds == ContentBounds(ink, size)
    IN IF bounds.width = 0
       THEN [svgPath |-> EmptyPathData, bounds |-> bounds, isEmpty |-> TRUE]
       ELSE [svgPath |-> [json |-> TRUE,
                          outlines |-> <<CroppedOutline(ink, bounds)>>,
                          holes |-> <<>>],
             bounds |-> bounds,
             isEmpty |-> FALSE]

\* Mutant of baselineOffset: the offset of the crop inside the writing area
\* is forgotten.
baselineOffset_IgnoresBounds(guides, pathBounds, unit) ==
    guides.baseline * (FONT_CAP_HEIGHT - FONT_BASELINE)

\* const baselineOffset = (guides.baseline - pathBounds.y) * scale, as the
\* numerator of a fraction over templateCapToBaseline
baselineOffset(guides, pathBounds, unit) ==
    (guides.baseline - pathBounds.y * 100 * unit)
        * (FONT_CAP_HEIGHT - FONT_BASELINE)

\* const transformPoint = (x, y) => ({x: x * scale + LEFT_SIDE_BEARING,
\* y: baselineOffset - y * scale}), with scale = fontCapToBaseline /
\* templateCapToBaseline: both coordinates as fractions of font units
transformPoint(x, y, pathBounds, guides, unit) ==
    LET templateCapToBaseline == guides.baseline - guides.capHeight
        fontCapToBaseline == FONT_CAP_HEIGHT - FONT_BASELINE
    IN [x |-> [num |-> x * unit * fontCapToBaseline
                       + LEFT_SIDE_BEARING * templateCapToBaseline,
               den |-> templateCapToBaseline],
        y |-> [num |-> baselineOffset(guides, pathBounds, unit)
                       - y * unit * fontCapToBaseline,
               den |-> templateCapToBaseline]]

\* transformPathWithFunction for M, L and Z: every point is replaced by
\* transformPoint of it, written with toFixed(1) (kept in tenths)
transformPathWithFunction(pathData, pathBounds, guides, unit) ==
    [k \in 1..Len(pathData) |->
        IF pathData[k].type = "Z"
        THEN ClosePath
        ELSE LET p == transformPoint(pathData[k].x, pathData[k].y,
                                     pathBounds, guides, unit)
             IN [type |-> pathData[k].type,
                 x |-> ToFixed1(p.x.num, p.x.den),
                 y |-> ToFixed1(p.y.num, p.y.den)]]

\* templateNormalize.  Path coordinates are in hundredths of a pixel, unit
\* is the number of guide units in a hundredth of a pixel, and pathBounds
\* is in pixels.
templateNormalize(svgPath, pathBounds, guides, unit) ==
    IF ~svgPath.json \/ pathBounds.width = 0 \/ pathBounds.height = 0
    THEN [normalizedPath |-> EmptyPathData, advanceWidth |-> 0]
    ELSE LET templateCapToBaseline == guides.baseline - guides.capHeight
             fontCapToBaseline == FONT_CAP_HEIGHT - FONT_BASELINE
             glyphWidthInFontUnits ==
                 pathBounds.width * 100 * unit * fontCapToBaseline
             advanceWidth ==
                 RoundDiv((LEFT_SIDE_BEARING + RIGHT_SIDE_BEARING)
                              * templateCapToBaseline
                          + glyphWidthInFontUnits,
                          templateCapToBaseline)
         IN [normalizedPath |->
                [json |-> TRUE,
                 outlines |->
                    [k \in 1..Len(svgPath.outlines) |->
                        transformPathWithFunction(svgPath.outlines[k],
                            pathBounds, guides, unit)],
                 holes |->
                    [k \in 1..Len(svgPath.holes) |->
                        transformPathWithFunction(svgPath.holes[k],
                            pathBounds, guides, unit)]],
             advanceWidth |-> advanceWidth]

\* The page configurations whose cells are normalised
NormConfigs ==
    [pageSize : {"letter", "a4"}, cellsPerRow : {8},
     rowsPerPage : {8, 10}, dpi : {150}]

\* The heights (hundredths of a pixel from the top of the writing area) at
\* which the ink's outline has its vertices: the top of the writing area,
\* the cap-height, baseline and descender guides, and the bottom edge
InkYs(config) ==
    LET templateCoords == getTemplateCoordinates(config)
        guides == templateGuides(templateCoords)
        rows == config.rowsPerPage
    IN {0,
        RoundDiv(guides.capHeight, rows),
        RoundDiv(guides.baseline, rows),
        RoundDiv(guides.descender, rows),
        100 * CellImageSize(templateCoords).height}

\* ... and the two abscissas of the vertices, as far apart as the
\* cap-height guide is from the baseline
InkXs(config) ==
    LET guides == templateGuides(getTemplateCoordinates(config))
    IN {600,
        600 + RoundDiv(guides.baseline - guides.capHeight,
                       config.rowsPerPage)}

\* Triangles of ink
InkShapes(config) ==
    {<<[type |-> "M", x |-> x1, y |-> y1], [type |-> "L", x |-> x2, y |-> y2],
       [type |-> "L", x |-> x3, y |-> y3], ClosePath>> :
        x1 \in InkXs(config), y1 \in InkYs(config),
        x2 \in InkXs(config), y2 \in InkYs(config),
        x3 \in InkXs(config), y3 \in InkYs(config)}

\* processTemplatePage, line 225: the cell's mask is vectorized
VectorizeCell ==
    /\ traced = NullRecord
    /\ \E ink \in InkShapes(normConfig) :
          traced' = VectorizeInk(ink,
                        CellImageSize(getTemplateCoordinates(normConfig)))
    /\ UNCHANGED <<normConfig, normalized>>
    /\ UNCHANGED <<pipeVars, cacheVars, stageVars, renderVars, morphVars>>

\* processTemplatePage, lines 235-240: a non-empty result is normalised
NormalizeGlyph ==
    /\ traced # NullRecord
    /\ normalized = NullRecord
    /\ ~traced.isEmpty
    /\ normalized' =
          templateNormalize(traced.svgPath, traced.bounds,
              templateGuides(getTemplateCoordinates(normConfig)),
              normConfig.rowsPerPage)
    /\ UNCHANGED <<normConfig, traced>>
    /\ UNCHANGED <<pipeVars, cacheVars, stageVars, renderVars, morphVars>>

\* The loop goes on to the next cell of the page
NextCell ==
    /\ traced # NullRecord
    /\ traced.isEmpty \/ normalized # NullRecord
    /\ traced' = NullRecord
    /\ normalized' = NullRecord
    /\ UNCHANGED normConfig
    /\ UNCHANGED <<pipeVars, cacheVars, stageVars, renderVars, morphVars>>

NormInit ==
    /\ normConfig \in NormConfigs
    /\ traced = NullRecord
    /\ normalized = NullRecord
    /\ PipeIdle /\ CacheInit /\ RenderIdle /\ MorphIdle /\ StageIdle

NormNext == VectorizeCell \/ NormalizeGlyph \/ NextCell

SpecNormalize == NormInit /\ [][NormNext]_vars

(***************************************************************************)
(* Properties of templateNormalize.                                        *)
(***************************************************************************)
GlyphNormalized == traced # NullRecord /\ normalized # NullRecord

\* The traced outline and the outline emitted for it
TracedOutline == traced.svgPath.outlines[1]
EmittedOutline == normalized.normalizedPath.outlines[1]

\* The commands of the traced outline that carry a point
OutlinePoints ==
    {k \in 1..Len(TracedOutline) : TracedOutline[k].type # "Z"}

\* The height of a traced point below the top of the writing area, in the
\* units of the cell guides
WritingAreaY(k) ==
    (TracedOutline[k].y + 100 * traced.bounds.y) * normConfig.rowsPerPage

NormGuides == templateGuides(getTemplateCoordinates(normConfig))

\* C7: every point of the outline is emitted; a point on the template
\* baseline is emitted at font y = 0 and a point on the cap-height guide at
\* font y = 700; a point that is higher in the cell is emitted with a
\* larger y; equal displacements along x and along y in the cell become
\* equal displacements in font units (up to the rounding of toFixed(1)), a
\* displacement as long as the cap-height-to-baseline distance becoming
\* 700 font units; and no emitted x is negative.  Emitted coordinates are
\* in tenths of a font unit.
C7_BaselineAnchoredUniformScale ==
    GlyphNormalized =>
        /\ Len(EmittedOutline) = Len(TracedOutline)
        /\ \A k \in OutlinePoints :
              /\ EmittedOutline[k].type = TracedOutline[k].type
              /\ WritingAreaY(k) = NormGuides.baseline =>
                    EmittedOutline[k].y = 0
              /\ WritingAreaY(k) = NormGuides.capHeight =>
                    EmittedOutline[k].y = 10 * FONT_CAP_HEIGHT
              /\ EmittedOutline[k].x >= 0
        /\ \A j, k \in OutlinePoints :
              /\ WritingAreaY(j) < WritingAreaY(k) =>
                    EmittedOutline[j].y >= EmittedOutline[k].y
              /\ WritingAreaY(j) + GuideUnits(getTemplateCoordinates(normConfig))
                     <= WritingAreaY(k) =>
                    EmittedOutline[j].y > EmittedOutline[k].y
              /\ (TracedOutline[j].x - TracedOutline[k].x)
                     * normConfig.rowsPerPage
                   = NormGuides.baseline - NormGuides.capHeight =>
                    EmittedOutline[j].x - EmittedOutline[k].x
                        \in (10 * FONT_CAP_HEIGHT - 1)..(10 * FONT_CAP_HEIGHT + 1)
        /\ \A j, k, m, n \in OutlinePoints :
              TracedOutline[j].x - TracedOutline[k].x
                  = TracedOutline[m].y - TracedOutline[n].y =>
                 (EmittedOutline[j].x - EmittedOutline[k].x)
                     - (EmittedOutline[n].y - EmittedOutline[m].y)
                     \in -1..1

\* A glyph of a letter page with 8 rows, where both guides fall on
\* hundredths of a pixel: its outline has a point on the baseline, a point
\* on the cap-height guide, and two points as far apart along x as the
\* guides are along y.
C7_Witness ==
    /\ GlyphNormalized
    /\ normConfig.pageSize = "letter"
    /\ normConfig.rowsPerPage = 8
    /\ \E j, k \in OutlinePoints :
          /\ WritingAreaY(j) = NormGuides.baseline
          /\ WritingAreaY(k) = NormGuides.capHeight
          /\ EmittedOutline[j].y = 0
          /\ EmittedOutline[k].y = 7000
          /\ (TracedOutline[j].x - TracedOutline[k].x)
                 * normConfig.rowsPerPage
               = NormGuides.baseline - NormGuides.capHeight

\* The y coordinates emitted for the glyph, over all its contours
EmittedYs ==
    UNION {PathYs(normalized.normalizedPath.outlines[c]) :
              c \in 1..Len(normalized.normalizedPath.outlines)}

\* C8: the vertical extent of a normalized outline, max y - min y, is at
\* most ascender - descender = 1000 font units (10000 tenths), wherever in
\* the writing area the ink lies.
C8_GlyphHeightWithinEm ==
    GlyphNormalized =>
        SetMax(EmittedYs) - SetMin(EmittedYs)
            <= 10 * (FONT_ASCENDER - FONT_DESCENDER)

(***************************************************************************)
(* SpecRender: renderBlankTemplate step by step                            *)
(* (src/lib/template/BlankTemplateRenderer.ts, lines 17-87).  Rectangles   *)
(* on the canvas are kept in quarters of a pixel.                          *)
(***************************************************************************)
MaxRenderCells == 4     \* cellsPerRow * rowsPerPage of a rendered page

RenderConfigs ==
    {c \in [pageSize : {"letter", "a4"}, cellsPerRow : 1..MaxRenderCells,
            rowsPerPage : 1..MaxRenderCells, dpi : {72, 150, 300}] :
        c.cellsPerRow * c.rowsPerPage <= MaxRenderCells}

MaxRenderPage == 2      \* pageNumber of a rendered page in 0..MaxRenderPage

RenderRequests ==
    [config : RenderConfigs, pageNumber : 0..MaxRenderPage,
     characterSet : CharacterSets]

\* drawMarker(cx, cy): the stroked outer square and the filled inner square
drawMarker(centre, markerSize) ==
    LET x == centre.x - 2 * markerSize          \* cx - markerSize / 2
        y == centre.y - 2 * markerSize
        innerSize == 2 * markerSize             \* markerSize / 2
        innerOffset == markerSize               \* (markerSize - innerSize) / 2
    IN <<[op |-> "strokeRect", x |-> x, y |-> y,
          width |-> 4 * markerSize, height |-> 4 * markerSize],
         [op |-> "fillRect", x |-> x + innerOffset, y |-> y + innerOffset,
          width |-> innerSize, height |-> innerSize]>>

\* drawMarkers: markerSize = Math.round(coords.pageWidth * 0.01)
drawMarkers(templateCoords) ==
    LET markerSize == RoundDiv(templateCoords.pageWidth, 100)
    IN drawMarker(templateCoords.markers.topLeft, markerSize)
       \o drawMarker(templateCoords.markers.topRight, markerSize)
       \o drawMarker(templateCoords.markers.bottomLeft, markerSize)
       \o drawMarker(templateCoords.markers.bottomRight, markerSize)

\* Lines 22-33: the coordinates, the canvas and its white background
Render_Begin ==
    /\ renderPc \in {"idle", "returned"}
    /\ \E r \in RenderRequests :
          /\ renderArgs' = r
          /\ coords' = getTemplateCoordinates(r.config)
          /\ canvas' = <<[op |-> "fillRect", x |-> 0, y |-> 0,
                          width |-> 4 * coords'.pageWidth,
                          height |-> 4 * coords'.pageHeight]>>
    /\ drawIdx' = 0
    /\ renderPc' = "markers"
    /\ UNCHANGED <<pipeVars, cacheVars, stageVars, normVars, morphVars>>

\* endIdx - startIdx of renderBlankTemplate: the cells that hold a character
RenderedCharacters(r) ==
    LET perPage == r.config.cellsPerRow * r.config.rowsPerPage
        first == r.pageNumber * perPage
    IN Min(first + perPage, Len(Characters(r.characterSet))) - first

\* a % b of JavaScript for b > 0: the remainder has the sign of a
JsRemainder(a, b) == IF a >= 0 THEN a % b ELSE 0 - ((0 - a) % b)

\* Line 36: drawMarkers(ctx, coords).  drawIdx is the local index of both
\* loops: the first runs from 0 while i < endIdx, the second starts at
\* endIdx - startIdx, which is negative for a page past the last character.
Render_DrawMarkers ==
    /\ renderPc = "markers"
    /\ canvas' = canvas \o drawMarkers(coords)
    /\ renderPc' = "cells"
    /\ drawIdx' = Min(0, RenderedCharacters(renderArgs))
    /\ UNCHANGED <<renderArgs, coords>>
    /\ UNCHANGED <<pipeVars, cacheVars, stageVars, normVars, morphVars>>

\* Lines 43-49: one iteration of the loop over the page's characters
Render_DrawCell ==
    /\ renderPc = "cells"
    /\ drawIdx < RenderedCharacters(renderArgs)
    /\ LET config == renderArgs.config
           first == renderArgs.pageNumber * config.cellsPerRow
                        * config.rowsPerPage
       IN canvas' = Append(canvas,
              [op |-> "drawCell",
               row |-> drawIdx \div config.cellsPerRow,
               col |-> drawIdx % config.cellsPerRow,
               character |->
                   Characters(renderArgs.characterSet)[first + drawIdx + 1]])
    /\ drawIdx' = drawIdx + 1
    /\ UNCHANGED <<renderPc, renderArgs, coords>>
    /\ UNCHANGED <<pipeVars, cacheVars, stageVars, normVars, morphVars>>

\* Lines 52-56: one iteration of the loop over the remaining slots
Render_DrawEmptyCell ==
    /\ renderPc = "cells"
    /\ drawIdx >= RenderedCharacters(renderArgs)
    /\ drawIdx < renderArgs.config.cellsPerRow * renderArgs.config.rowsPerPage
    /\ canvas' = Append(canvas,
          [op |-> "drawEmptyCell",
           row |-> drawIdx \div renderArgs.config.cellsPerRow,
           col |-> JsRemainder(drawIdx, renderArgs.config.cellsPerRow)])
    /\ drawIdx' = drawIdx + 1
    /\ UNCHANGED <<renderPc, renderArgs, coords>>
    /\ UNCHANGED <<pipeVars, cacheVars, stageVars, normVars, morphVars>>

\* Line 58: return ctx.getImageData(...)
Render_Return ==
    /\ renderPc = "cells"
    /\ drawIdx >= RenderedCharacters(renderArgs)
    /\ drawIdx >= renderArgs.config.cellsPerRow * renderArgs.config.rowsPerPage
    /\ renderPc' = "returned"
    /\ UNCHANGED <<renderArgs, coords, drawIdx, canvas>>
    /\ UNCHANGED <<pipeVars, cacheVars, stageVars, normVars, morphVars>>

RenderInit == RenderIdle /\ PipeIdle /\ CacheInit /\ NormIdle /\ MorphIdle /\ StageIdle

RenderNext ==
    \/ Render_Begin
    \/ Render_DrawMarkers
    \/ Render_DrawCell
    \/ Render_DrawEmptyCell
    \/ Render_Return

SpecRender == RenderInit /\ [][RenderNext]_vars

\* The stroked squares on the canvas: the four markers, in the order
\* top-left, top-right, bottom-left, bottom-right
StrokedSquares == SelectSeq(canvas, LAMBDA d : d.op = "strokeRect")

CornerOrder == <<"topLeft", "topRight", "bottomLeft", "bottomRight">>

\* C9: each marker square drawn by the blank-template renderer has the
\* centre that getTemplateCoordinates computed for it and the side
\* mmToPixels(8, dpi) that getTemplateCoordinates used to place that
\* centre (lengths in quarters of a pixel).
C9_DrawnMarkerMatchesGeometry ==
    renderPc \in {"cells", "returned"} =>
        /\ Len(StrokedSquares) = 4
        /\ \A k \in 1..4 :
              LET square == StrokedSquares[k]
                  side == 4 * mmToPixels(10 * MARKER_SIZE_MM,
                                         renderArgs.config.dpi)
              IN /\ 2 * square.x + square.width
                       = 2 * coords.markers[CornerOrder[k]].x
                 /\ 2 * square.y + square.height
                       = 2 * coords.markers[CornerOrder[k]].y
                 /\ square.width = side
                 /\ square.height = side

(***************************************************************************)
(* SpecMorph: morphologicalCleanup (src/lib/image/OpenCVProcessor.ts,      *)
(* lines 405-436) on small single-channel masks.  A Mat is a record with   *)
(* its rows, cols and data, data[<<y, x>>] being 0 or 255.                 *)
(***************************************************************************)
MaskSize == 3       \* masks are MaskSize x MaskSize
MaxInk == 3         \* a mask has at most MaxInk pixels of ink

Pixels == (0..(MaskSize - 1)) \X (0..(MaskSize - 1))

\* closeSize and openSize: 0 (the step is skipped), and the defaults 3, 2
KernelSizes == {0, 2, 3}

\* The mask whose ink (255) is the given set of pixels
MaskOf(ink) ==
    [rows |-> MaskSize, cols |-> MaskSize,
     data |-> [p \in Pixels |-> IF p \in ink THEN 255 ELSE 0]]

Masks == {MaskOf(ink) : ink \in {s \in SUBSET Pixels : Cardinality(s) <= MaxInk}}

\* cv.bitwise_not
bitwise_not(mat) == [mat EXCEPT !.data = [p \in Pixels |-> 255 - mat.data[p]]]

\* cv.countNonZero
countNonZero(mat) == Cardinality({p \in Pixels : mat.data[p] # 0})

\* ensureInkIsWhite: flipped if more than half of the pixels are non-zero
ensureInkIsWhite(mat) ==
    IF 2 * countNonZero(mat) > mat.rows * mat.cols
    THEN bitwise_not(mat)
    ELSE mat

\* cv.getStructuringElement(cv.MORPH_ELLIPSE, Size(size, size)) for
\* size <= 3, as the offsets <<dy, dx>> of its elements from its anchor,
\* the centre <<size / 2, size / 2>>: the row of the centre is full, the
\* rows above and below hold the centre column only
getStructuringElement(size) ==
    LET c == size \div 2
    IN {<<ky - c, kx - c>> : ky \in 0..(size - 1), kx \in 0..(size - 1)}
       \cap ({<<0, dx>> : dx \in (0 - c)..c}
             \cup {<<dy, 0>> : dy \in (0 - c)..c})

\* The pixels of the image under the kernel anchored at p
Under(p, kernel) ==
    {<<p[1] + o[1], p[2] + o[2]>> : o \in kernel} \cap Pixels

\* cv.dilate and cv.erode with the default border, which never decides a
\* maximum or a minimum
dilate(mat, kernel) ==
    [mat EXCEPT !.data =
        [p \in Pixels |->
            IF \E q \in Under(p, kernel) : mat.data[q] = 255
            THEN 255 ELSE 0]]

erode(mat, kernel) ==
    [mat EXCEPT !.data =
        [p \in Pixels |->
            IF \A q \in Under(p, kernel) : mat.data[q] = 255
            THEN 255 ELSE 0]]

\* cv.morphologyEx(src, dst, op, kernel)
morphologyEx(mat, op, kernel) ==
    IF op = "MORPH_CLOSE"
    THEN erode(dilate(mat, kernel), kernel)
    ELSE dilate(erode(mat, kernel), kernel)

\* morphologicalCleanup: a copy of the input, closed if closeSize > 0 and
\* then opened if openSize > 0
morphologicalCleanup(mat, closeSize, openSize) ==
    LET copy == mat
        closed == IF closeSize > 0
                  THEN morphologyEx(copy, "MORPH_CLOSE",
                                    getStructuringElement(closeSize))
                  ELSE copy
    IN IF openSize > 0
       THEN morphologyEx(closed, "MORPH_OPEN",
                         getStructuringElement(openSize))
       ELSE closed

\* A mask with ink=255 on background=0 and the kernel sizes are chosen
ChooseMask ==
    /\ binaryMat = NullRecord
    /\ binaryMat' \in Masks
    /\ \E closeSize, openSize \in KernelSizes :
          kernelSizes' = [closeSize |-> closeSize, openSize |-> openSize]
    /\ cleanedDirect' = NullRecord
    /\ cleanedInverted' = NullRecord
    /\ UNCHANGED <<pipeVars, cacheVars, stageVars, normVars, renderVars>>

\* The stage is fed the mask
FeedDirect ==
    /\ binaryMat # NullRecord
    /\ cleanedDirect = NullRecord
    /\ cleanedDirect' = morphologicalCleanup(binaryMat,
                            kernelSizes.closeSize, kernelSizes.openSize)
    /\ UNCHANGED <<binaryMat, kernelSizes, cleanedInverted>>
    /\ UNCHANGED <<pipeVars, cacheVars, stageVars, normVars, renderVars>>

\* The stage is fed the same mask with inverted polarity
FeedInverted ==
    /\ binaryMat # NullRecord
    /\ cleanedInverted = NullRecord
    /\ cleanedInverted' = morphologicalCleanup(bitwise_not(binaryMat),
                              kernelSizes.closeSize, kernelSizes.openSize)
    /\ UNCHANGED <<binaryMat, kernelSizes, cleanedDirect>>
    /\ UNCHANGED <<pipeVars, cacheVars, stageVars, normVars, renderVars>>

MorphInit == MorphIdle /\ PipeIdle /\ CacheInit /\ NormIdle /\ RenderIdle /\ StageIdle

MorphNext == ChooseMask \/ FeedDirect \/ FeedInverted

SpecMorph == MorphInit /\ [][MorphNext]_vars

\* C10: fed a mask with inverted polarity (background=255, ink=0),
\* morphologicalCleanup yields the same output as when it is fed the
\* correctly polarized mask, for every closeSize and openSize.
C10_PolarityNormalizedBeforeMorphology ==
    (cleanedDirect # NullRecord /\ cleanedInverted # NullRecord) =>
        cleanedInverted = cleanedDirect

(***************************************************************************)
(* Ink polarity.  ensureForegroundInk (MonolineProcessor.ts) works on an   *)
(* ImageData and ensureInkIsWhite (OpenCVProcessor.ts) on a single-channel *)
(* Mat.  Both are fed the same binary mask here: a gray image whose three  *)
(* colour channels are equal, with alpha 255, so that data[p] is at once   *)
(* the Mat's value and the ImageData's channel average at pixel p.         *)
(***************************************************************************)

\* Every binary mask of the size, whatever fraction of it is ink
BinaryMasks == {MaskOf(ink) : ink \in SUBSET Pixels}

\* ensureForegroundInk: the image is inverted when invertIfNecessary is set
\* and the light pixels (average >= 128) outnumber the dark ones
ensureForegroundInk(image, invertIfNecessary) ==
    LET darkCount == Cardinality({p \in DOMAIN image.data : image.data[p] < 128})
        lightCount == Cardinality({p \in DOMAIN image.data : ~(image.data[p] < 128)})
        shouldInvert == invertIfNecessary /\ lightCount > darkCount
    IN  [image EXCEPT !.data =
            [p \in DOMAIN image.data |->
                IF shouldInvert
                THEN (IF image.data[p] < 128 THEN 255 ELSE 0)
                ELSE (IF image.data[p] > 128 THEN 255 ELSE 0)]]

\* A caller holds a binary mask with ink = 255
ChooseBinaryMask ==
    /\ binaryMask = NullRecord
    /\ binaryMask' \in BinaryMasks
    /\ UNCHANGED <<prepared, flipped>>
    /\ UNCHANGED polarityRest

\* processMonoline, step 1: prepared = ensureForegroundInk(binaryMask, true)
EnsureForegroundInk ==
    /\ binaryMask # NullRecord
    /\ prepared = NullRecord
    /\ prepared' = ensureForegroundInk(binaryMask, TRUE)
    /\ UNCHANGED <<binaryMask, flipped>>
    /\ UNCHANGED polarityRest

\* morphologicalCleanupNormalized: normalized = ensureInkIsWhite(binaryMat)
EnsureInkIsWhite ==
    /\ binaryMask # NullRecord
    /\ flipped = NullRecord
    /\ flipped' = ensureInkIsWhite(binaryMask)
    /\ UNCHANGED <<binaryMask, prepared>>
    /\ UNCHANGED polarityRest

BaseIdle == PipeIdle /\ CacheInit /\ NormIdle /\ RenderIdle /\ MorphIdle

PolarityInit == BaseIdle /\ StageIdle

PolarityNext == ChooseBinaryMask \/ EnsureForegroundInk \/ EnsureInkIsWhite

SpecPolarity == PolarityInit /\ [][PolarityNext]_vars

\* C11: a mask that is already binary with ink = 255 and background = 0 is
\* returned unchanged by ensureForegroundInk and by ensureInkIsWhite,
\* whatever fraction of its pixels is ink.
C11_BinaryMaskUnchanged ==
    /\ prepared # NullRecord => prepared = binaryMask
    /\ flipped # NullRecord => flipped = binaryMask

(***************************************************************************)
(* Thinning.ts: zhangSuenThinning.  An ImageData is modelled by its width, *)
(* height and the value of its (equal) colour channels at each <<x, y>>.   *)
(***************************************************************************)
ThinSize == 4

MaxThinInk == 4

maxIterations == 1000

PixelsOf(w, h) == (0..(w - 1)) \X (0..(h - 1))

\* The ImageData whose pixels in ink are 255 and whose other pixels are 0
ImageOf(w, h, ink) ==
    [width |-> w, height |-> h,
     data |-> [p \in PixelsOf(w, h) |-> IF p \in ink THEN 255 ELSE 0]]

InkOf(image) == {p \in DOMAIN image.data : image.data[p] > 128}

ThinImages ==
    {ImageOf(ThinSize, ThinSize, ink) :
        ink \in {s \in SUBSET PixelsOf(ThinSize, ThinSize) :
                    Cardinality(s) <= MaxThinInk}}

\* grid[y][x] = data[idx] > 128 ? 1 : 0
GridOf(image) ==
    [p \in DOMAIN image.data |-> IF image.data[p] > 128 THEN 1 ELSE 0]

\* [P2, P3, P4, P5, P6, P7, P8, P9]: north, then clockwise
getNeighbors(g, x, y) ==
    << g[<<x, y - 1>>], g[<<x + 1, y - 1>>], g[<<x + 1, y>>],
       g[<<x + 1, y + 1>>], g[<<x, y + 1>>], g[<<x - 1, y + 1>>],
       g[<<x - 1, y>>], g[<<x - 1, y - 1>>] >>

\* the 0 -> 1 transitions in the circular sequence of the neighbours
countTransitions(neighbors) ==
    Cardinality({k \in 1..8 :
        neighbors[k] = 0 /\ neighbors[(k % 8) + 1] = 1})

countNonZeroNeighbors(neighbors) ==
    Cardinality({k \in 1..8 : neighbors[k] # 0})

\* shouldRemoveStep1 with the two products of shouldRemoveStep2
shouldRemoveStep1_SecondProducts(g, x, y) ==
    LET neighbors == getNeighbors(g, x, y)
        A == countNonZeroNeighbors(neighbors)
        B == countTransitions(neighbors)
    IN  /\ A >= 2 /\ A <= 6
        /\ B = 1
        /\ neighbors[1] * neighbors[3] * neighbors[7] = 0
        /\ neighbors[1] * neighbors[5] * neighbors[7] = 0

shouldRemoveStep1(g, x, y) ==
    LET neighbors == getNeighbors(g, x, y)
        A == countNonZeroNeighbors(neighbors)
        B == countTransitions(neighbors)
    IN  /\ A >= 2 /\ A <= 6
        /\ B = 1
        /\ neighbors[1] * neighbors[3] * neighbors[5] = 0
        /\ neighbors[3] * neighbors[5] * neighbors[7] = 0

shouldRemoveStep2(g, x, y) ==
    LET neighbors == getNeighbors(g, x, y)
        A == countNonZeroNeighbors(neighbors)
        B == countTransitions(neighbors)
    IN  /\ A >= 2 /\ A <= 6
        /\ B = 1
        /\ neighbors[1] * neighbors[3] * neighbors[7] = 0
        /\ neighbors[1] * neighbors[5] * neighbors[7] = 0

\* the pixels the two loops visit: 1 <= x < width - 1, 1 <= y < height - 1
InteriorOf(w, h) == (1..(w - 2)) \X (1..(h - 2))

RemoveAll(g, toRemove) == [p \in DOMAIN g |-> IF p \in toRemove THEN 0 ELSE g[p]]

\* One pass of the while loop's body: both sub-iterations, each collecting
\* its pixels on the grid as it stands and then clearing them together
ThinningPass(g, w, h) ==
    LET toRemove1 == {p \in InteriorOf(w, h) :
                        g[p] = 1 /\ shouldRemoveStep1(g, p[1], p[2])}
        g1 == RemoveAll(g, toRemove1)
        toRemove2 == {p \in InteriorOf(w, h) :
                        g1[p] = 1 /\ shouldRemoveStep2(g1, p[1], p[2])}
    IN  [grid |-> RemoveAll(g1, toRemove2),
         toRemove1 |-> toRemove1,
         toRemove2 |-> toRemove2]

\* zhangSuenThinning run to its end, as a function of its argument
RECURSIVE ThinLoop(_, _, _, _)
ThinLoop(g, w, h, count) ==
    LET pass == ThinningPass(g, w, h)
    IN  IF pass.toRemove1 = {} /\ pass.toRemove2 = {} THEN g
        ELSE IF count + 1 >= maxIterations THEN pass.grid
        ELSE ThinLoop(pass.grid, w, h, count + 1)

zhangSuenThinning(image) ==
    LET g == ThinLoop(GridOf(image), image.width, image.height, 0)
    IN  [image EXCEPT !.data = [p \in DOMAIN g |-> IF g[p] = 1 THEN 255 ELSE 0]]

\* lines 13-29: the grid is built, changed = true, iterations = 0
Thin_Begin ==
    /\ thinPc = "idle"
    /\ thinInput' \in ThinImages
    /\ thinGrid' = GridOf(thinInput')
    /\ changed' = TRUE
    /\ iterations' = 0
    /\ removed' = <<>>
    /\ thinPc' = "loop"
    /\ UNCHANGED skeleton
    /\ UNCHANGED thinRest

\* the same pass, but with the flag left set
Thin_Iterate_FlagLeftSet ==
    /\ thinPc = "loop"
    /\ changed /\ iterations < maxIterations
    /\ LET pass == ThinningPass(thinGrid, thinInput.width, thinInput.height)
       IN  /\ thinGrid' = pass.grid
           /\ changed' = TRUE
           /\ removed' = Append(removed,
                  Cardinality(pass.toRemove1) + Cardinality(pass.toRemove2))
    /\ iterations' = iterations + 1
    /\ UNCHANGED <<thinPc, thinInput, skeleton>>
    /\ UNCHANGED thinRest

\* lines 31-62: one pass of while (changed && iterations < maxIterations)
Thin_Iterate ==
    /\ thinPc = "loop"
    /\ changed /\ iterations < maxIterations
    /\ LET pass == ThinningPass(thinGrid, thinInput.width, thinInput.height)
       IN  /\ thinGrid' = pass.grid
           /\ changed' = (pass.toRemove1 # {} \/ pass.toRemove2 # {})
           /\ removed' = Append(removed,
                  Cardinality(pass.toRemove1) + Cardinality(pass.toRemove2))
    /\ iterations' = iterations + 1
    /\ UNCHANGED <<thinPc, thinInput, skeleton>>
    /\ UNCHANGED thinRest

\* lines 64-79: the loop is left and the grid converted back
Thin_Return ==
    /\ thinPc = "loop"
    /\ ~(changed /\ iterations < maxIterations)
    /\ skeleton' = [thinInput EXCEPT !.data =
                        [p \in DOMAIN thinGrid |-> IF thinGrid[p] = 1 THEN 255 ELSE 0]]
    /\ thinPc' = "done"
    /\ UNCHANGED <<thinInput, thinGrid, changed, iterations, removed>>
    /\ UNCHANGED thinRest

ThinInit == BaseIdle /\ StageIdle

ThinNext == Thin_Begin \/ Thin_Iterate \/ Thin_Return

SpecThinning == ThinInit /\ [][ThinNext]_vars

\* The loop is sequential code: a pass that can run does run
SpecThinningFair ==
    SpecThinning /\ WF_thinVars(Thin_Iterate \/ Thin_Return)

ThinningBounded ==
    /\ iterations <= maxIterations
    /\ thinPc # "idle" =>
        /\ iterations = Len(removed)
        /\ iterations <= Min(maxIterations, Cardinality(InkOf(thinInput)) + 1)
        /\ \A k \in 1..(Len(removed) - 1) : removed[k] >= 1
        /\ (iterations >= 1 /\ iterations < maxIterations) =>
              ((removed[iterations] = 0) <=> ~changed)
    /\ (thinPc = "done" /\ iterations < maxIterations) =>
          removed[iterations] = 0

\* C12: zhangSuenThinning terminates on every input: it runs at most 1000
\* iterations, it stops before the cap exactly when a full iteration removed
\* no pixel, every iteration but the last removes at least one ink pixel, so
\* the number of iterations is at most min(1000, ink pixels + 1).
C12_ThinningTerminates ==
    /\ []ThinningBounded
    /\ (thinPc = "loop") ~> (thinPc = "done")

\* a run of two iterations or more has returned: the first removed ink
C12_Witness ==
    /\ thinPc = "done"
    /\ iterations >= 2
    /\ removed[1] >= 1
    /\ removed[iterations] = 0

(***************************************************************************)
(* 8-connectivity of sets of pixels                                        *)
(***************************************************************************)
Adjacent8(p, q) ==
    /\ p # q
    /\ p[1] - q[1] \in {-1, 0, 1}
    /\ p[2] - q[2] \in {-1, 0, 1}

\* the pixels of ink that are 8-connected to a pixel of seen
RECURSIVE Reach(_, _)
Reach(seen, ink) ==
    LET more == {q \in ink \ seen : \E p \in seen : Adjacent8(p, q)}
    IN  IF more = {} THEN seen ELSE Reach(seen \cup more, ink)

ComponentsOf(ink) == {Reach({p}, ink) : p \in ink}

IsConnected(ink) == ink = {} \/ Reach({CHOOSE p \in ink : TRUE}, ink) = ink

\* C18: zhangSuenThinning preserves connectivity: the ink of its output is a
\* subset of the ink of its input, and every 8-connected component of the
\* input keeps at least one ink pixel and is not split into several.
C18_ThinningPreservesConnectivity ==
    thinPc = "done" =>
        /\ InkOf(skeleton) \subseteq InkOf(thinInput)
        /\ \A comp \in ComponentsOf(InkOf(thinInput)) :
              /\ comp \cap InkOf(skeleton) # {}
              /\ IsConnected(comp \cap InkOf(skeleton))

(***************************************************************************)
(* MonolineProcessor.ts: weldEndpoints.  A stroke is the sequence of its   *)
(* points <<x, y>>; its length field, a sum of square roots recomputed     *)
(* from the points, is left out.  The centroid of n endpoints is a         *)
(* fraction with denominator n, so returned coordinates are written in     *)
(* units of 1/WeldScale pixel, WeldScale being a multiple of every n.      *)
(***************************************************************************)
MaxWeldStrokes == 2

WeldPoints == {<<0, 0>>, <<2, 0>>, <<4, 0>>, <<1, 2>>}

WeldInterior == {<<1, 1>>}

\* weldRadius: the default 2 and the 3 that processMonoline passes
WeldRadii == {2, 3}

RECURSIVE Factorial(_)
Factorial(n) == IF n <= 1 THEN 1 ELSE n * Factorial(n - 1)

WeldScale == Factorial(2 * MaxWeldStrokes)

WeldStrokes ==
    {<<a>> : a \in WeldPoints}
        \cup {<<a, b>> : a \in WeldPoints, b \in WeldPoints}
        \cup {<<a, mid, b>> : a \in WeldPoints, mid \in WeldInterior, b \in WeldPoints}

WeldStrokeLists == UNION {[1..n -> WeldStrokes] : n \in 0..MaxWeldStrokes}

\* dist(a, b) <= radius, for points with integer coordinates
WithinRadius(a, b, radius) ==
    (a[1] - b[1]) * (a[1] - b[1]) + (a[2] - b[2]) * (a[2] - b[2])
        <= radius * radius

\* the start and the end of each stroke of two points or more, stroke by stroke
RECURSIVE CollectEndpoints(_, _)
CollectEndpoints(strokeList, idx) ==
    IF idx > Len(strokeList) THEN <<>>
    ELSE LET pts == strokeList[idx]
         IN  (IF Len(pts) < 2 THEN <<>>
              ELSE << [strokeIdx |-> idx, isStart |-> TRUE, point |-> pts[1]],
                      [strokeIdx |-> idx, isStart |-> FALSE, point |-> pts[Len(pts)]] >>)
             \o CollectEndpoints(strokeList, idx + 1)

\* find: the root of k (the path compression of line 568 moves entries of
\* parent closer to their root and changes no root)
RECURSIVE find(_, _)
find(parent, k) == IF parent[k] = k THEN k ELSE find(parent, parent[k])

union(parent, a, b) ==
    LET pa == find(parent, a)
        pb == find(parent, b)
    IN  IF pa # pb THEN [parent EXCEPT ![pa] = pb] ELSE parent

\* the double loop over a < b, from the pair <<a, b>> on
RECURSIVE FindClusters(_, _, _, _, _)
FindClusters(parent, endpoints, radius, a, b) ==
    IF a > Len(endpoints) THEN parent
    ELSE IF b > Len(endpoints)
         THEN FindClusters(parent, endpoints, radius, a + 1, a + 2)
    ELSE FindClusters(
            IF WithinRadius(endpoints[a].point, endpoints[b].point, radius)
            THEN union(parent, a, b) ELSE parent,
            endpoints, radius, a, b + 1)

RECURSIVE SumOver(_, _, _)
SumOver(members, endpoints, axis) ==
    IF members = {} THEN 0
    ELSE LET k == CHOOSE e \in members : TRUE
         IN  endpoints[k].point[axis] + SumOver(members \ {k}, endpoints, axis)

\* the first point of the cluster instead of the mean of its points
centroid_FirstMember(members, endpoints) ==
    LET k == CHOOSE e \in members : \A f \in members : e <= f
    IN  <<endpoints[k].point[1] * WeldScale, endpoints[k].point[2] * WeldScale>>

\* the centroid of a cluster, in units of 1/WeldScale
centroid(members, endpoints) ==
    << (SumOver(members, endpoints, 1) * WeldScale) \div Cardinality(members),
       (SumOver(members, endpoints, 2) * WeldScale) \div Cardinality(members) >>

ScalePoint(p) == <<p[1] * WeldScale, p[2] * WeldScale>>

weldEndpoints(strokeList, radius) ==
    LET endpoints == CollectEndpoints(strokeList, 1)
        parent == FindClusters([k \in 1..Len(endpoints) |-> k],
                               endpoints, radius, 1, 2)
        clusterOf(k) == {e \in 1..Len(endpoints) :
                            find(parent, e) = find(parent, k)}
        \* replacements: "strokeIdx,isStart" -> centroid, for clusters of 2 or more
        replaced(idx, start) ==
            {k \in 1..Len(endpoints) :
                /\ endpoints[k].strokeIdx = idx
                /\ endpoints[k].isStart = start
                /\ Cardinality(clusterOf(k)) > 1}
        newPoint(idx, start) ==
            centroid(clusterOf(CHOOSE k \in replaced(idx, start) : TRUE), endpoints)
    IN  [idx \in 1..Len(strokeList) |->
            LET pts == strokeList[idx]
                pts0 == [k \in 1..Len(pts) |-> ScalePoint(pts[k])]
                pts1 == IF replaced(idx, TRUE) # {}
                        THEN [pts0 EXCEPT ![1] = newPoint(idx, TRUE)]
                        ELSE pts0
            IN  IF replaced(idx, FALSE) # {}
                THEN [pts1 EXCEPT ![Len(pts)] = newPoint(idx, FALSE)]
                ELSE pts1]

ChooseStrokes ==
    /\ weldArgs = NullRecord
    /\ \E strokeList \in WeldStrokeLists, radius \in WeldRadii :
          weldArgs' = [strokes |-> strokeList, weldRadius |-> radius]
    /\ UNCHANGED welded
    /\ UNCHANGED weldRest

WeldEndpoints ==
    /\ weldArgs # NullRecord
    /\ welded = NullRecord
    /\ welded' = [strokes |-> weldEndpoints(weldArgs.strokes, weldArgs.weldRadius)]
    /\ UNCHANGED weldArgs
    /\ UNCHANGED weldRest

WeldInit == BaseIdle /\ StageIdle

WeldNext == ChooseStrokes \/ WeldEndpoints

SpecWeld == WeldInit /\ [][WeldNext]_vars

\* An endpoint of the argument: <<stroke, TRUE>> is the first point and
\* <<stroke, FALSE>> the last point of a stroke of two points or more
EndpointRefs ==
    {e \in (1..Len(weldArgs.strokes)) \X BOOLEAN : Len(weldArgs.strokes[e[1]]) >= 2}

PointBefore(e) ==
    LET pts == weldArgs.strokes[e[1]]
    IN  IF e[2] THEN pts[1] ELSE pts[Len(pts)]

PointAfter(e) ==
    LET pts == welded.strokes[e[1]]
    IN  IF e[2] THEN pts[1] ELSE pts[Len(pts)]

\* the endpoints linked to one of seen by a chain of endpoints whose
\* consecutive distances are at most the radius
RECURSIVE Chained(_)
Chained(seen) ==
    LET more == {f \in EndpointRefs \ seen :
                    \E e \in seen :
                        WithinRadius(PointBefore(e), PointBefore(f), weldArgs.weldRadius)}
    IN  IF more = {} THEN seen ELSE Chained(seen \cup more)

RECURSIVE SumBefore(_, _)
SumBefore(refs, axis) ==
    IF refs = {} THEN 0
    ELSE LET e == CHOOSE f \in refs : TRUE
         IN  PointBefore(e)[axis] + SumBefore(refs \ {e}, axis)

\* n times the point, in units of 1/WeldScale, is WeldScale times the sum
IsMeanOf(pt, refs) ==
    /\ pt[1] * Cardinality(refs) = SumBefore(refs, 1) * WeldScale
    /\ pt[2] * Cardinality(refs) = SumBefore(refs, 2) * WeldScale

\* C13: after weldEndpoints(strokes, r) any two endpoints (first or last
\* point of a stroke of two points or more) linked by a chain of endpoints
\* with consecutive distances at most r have identical coordinates, the
\* centroid of their cluster; an endpoint alone in its cluster, every
\* interior point, the number of strokes and the number of points of each
\* stroke are unchanged.
C13_WeldedClustersShareCentroid ==
    welded # NullRecord =>
        /\ Len(welded.strokes) = Len(weldArgs.strokes)
        /\ \A s \in 1..Len(weldArgs.strokes) :
              /\ Len(welded.strokes[s]) = Len(weldArgs.strokes[s])
              /\ \A k \in 1..Len(weldArgs.strokes[s]) :
                    (<<s, TRUE>> \notin EndpointRefs \/ (k # 1 /\ k # Len(weldArgs.strokes[s])))
                        => welded.strokes[s][k] =
                              <<weldArgs.strokes[s][k][1] * WeldScale,
                                weldArgs.strokes[s][k][2] * WeldScale>>
        /\ \A e \in EndpointRefs :
              LET cluster == Chained({e})
              IN  /\ IsMeanOf(PointAfter(e), cluster)
                  /\ \A f \in cluster : PointAfter(f) = PointAfter(e)

\* two endpoints further apart than the radius were welded through a third
C13_Witness ==
    /\ welded # NullRecord
    /\ \E e \in EndpointRefs, f \in EndpointRefs :
          /\ f \in Chained({e})
          /\ ~WithinRadius(PointBefore(e), PointBefore(f), weldArgs.weldRadius)
          /\ PointAfter(e) = PointAfter(f)
          /\ PointAfter(e) # <<PointBefore(e)[1] * WeldScale, PointBefore(e)[2] * WeldScale>>

(***************************************************************************)
(* Douglas-Peucker: simplifyStroke (MonolineProcessor.ts) and simplifyPath *)
(* (PdfParser.ts).  Points have integer coordinates; a distance            *)
(* |cross| / sqrt(lenSq) is kept as the pair of its cross product and      *)
(* lenSq, and epsilon as a fraction, so that every comparison is exact.    *)
(***************************************************************************)
MaxPoints == 4

DPPoints == (0..2) \X (0..1)

\* epsilon: 0, 1/2 (the floor of calculateSimplifyEpsilon), 1
Epsilons == {[num |-> 0, den |-> 1], [num |-> 1, den |-> 2], [num |-> 1, den |-> 1]}

PointLists == UNION {[1..n -> DPPoints] : n \in 0..MaxPoints}

Abs(n) == IF n < 0 THEN -n ELSE n

\* |(p2.y - p1.y) p.x - (p2.x - p1.x) p.y + p2.x p1.y - p2.y p1.x|
CrossProduct(p, p1, p2) ==
    Abs((p2[2] - p1[2]) * p[1] - (p2[1] - p1[1]) * p[2]
            + p2[1] * p1[2] - p2[2] * p1[1])

DistSq(a, b) ==
    (a[1] - b[1]) * (a[1] - b[1]) + (a[2] - b[2]) * (a[2] - b[2])

\* the same search, begun one point late
findMaxDistance_SkipsFirst(pts, start, end) ==
    LET p1 == pts[start]
        p2 == pts[end]
        lenSq == DistSq(p1, p2)
        inner == (start + 2)..(end - 1)
        best == {k \in inner :
                    /\ CrossProduct(pts[k], p1, p2) > 0
                    /\ \A m \in inner :
                          /\ CrossProduct(pts[m], p1, p2) <= CrossProduct(pts[k], p1, p2)
                          /\ (m < k => CrossProduct(pts[m], p1, p2) < CrossProduct(pts[k], p1, p2))}
    IN  IF lenSq = 0 \/ best = {}
        THEN [cross |-> 0, lenSq |-> 1, index |-> 0]
        ELSE LET k == CHOOSE m \in best : TRUE
             IN  [cross |-> CrossProduct(pts[k], p1, p2), lenSq |-> lenSq, index |-> k]

\* findMaxDistance of simplifyStroke over pts[start + 1 .. end - 1]: the
\* first point whose distance exceeds every earlier one.  When p1 = p2 the
\* distance is 0 / 0 = NaN, dist > maxDist is false for every point, and
\* maxDist and index stay 0.
findMaxDistance(pts, start, end) ==
    LET p1 == pts[start]
        p2 == pts[end]
        lenSq == DistSq(p1, p2)
        inner == (start + 1)..(end - 1)
        best == {k \in inner :
                    /\ CrossProduct(pts[k], p1, p2) > 0
                    /\ \A m \in inner :
                          /\ CrossProduct(pts[m], p1, p2) <= CrossProduct(pts[k], p1, p2)
                          /\ (m < k => CrossProduct(pts[m], p1, p2) < CrossProduct(pts[k], p1, p2))}
    IN  IF lenSq = 0 \/ best = {}
        THEN [cross |-> 0, lenSq |-> 1, index |-> 0]
        ELSE LET k == CHOOSE m \in best : TRUE
             IN  [cross |-> CrossProduct(pts[k], p1, p2), lenSq |-> lenSq, index |-> k]

\* maxDist > epsilon, that is cross^2 * den^2 > num^2 * lenSq, written so
\* that no product reaches 2^31
ExceedsEpsilon(cross, lenSq, epsilon) ==
    \/ cross > 46340
    \/ cross * cross
          > (epsilon.num * epsilon.num * lenSq) \div (epsilon.den * epsilon.den)

DropLast(s) == SubSeq(s, 1, Len(s) - 1)

\* the inner function simplify(pts, start, end) of simplifyStroke
RECURSIVE simplify(_, _, _, _)
simplify(pts, start, end, epsilon) ==
    LET far == findMaxDistance(pts, start, end)
    IN  IF ExceedsEpsilon(far.cross, far.lenSq, epsilon)
        THEN DropLast(simplify(pts, start, far.index, epsilon))
                \o simplify(pts, far.index, end, epsilon)
        ELSE <<pts[start], pts[end]>>

simplifyStroke(points, epsilon) ==
    IF Len(points) <= 2 THEN points
    ELSE simplify(points, 1, Len(points), epsilon)

\* perpendicularDistance of PdfParser.ts, squared, as a fraction num/den:
\* the distance to lineStart when the line is a point
perpendicularDistance(point, lineStart, lineEnd) ==
    IF DistSq(lineStart, lineEnd) = 0
    THEN [num |-> DistSq(point, lineStart), den |-> 1]
    ELSE [num |-> CrossProduct(point, lineStart, lineEnd)
                    * CrossProduct(point, lineStart, lineEnd),
          den |-> DistSq(lineStart, lineEnd)]

RECURSIVE simplifyPath(_, _)
simplifyPath(points, epsilon) ==
    IF Len(points) <= 2 THEN points
    ELSE LET first == points[1]
             last == points[Len(points)]
             inner == 2..(Len(points) - 1)
             d(k) == perpendicularDistance(points[k], first, last).num
             best == {k \in inner :
                        /\ d(k) > 0
                        /\ \A m \in inner :
                              /\ d(m) <= d(k)
                              /\ (m < k => d(m) < d(k))}
             maxIndex == IF best = {} THEN 1 ELSE CHOOSE m \in best : TRUE
             maxDist == IF best = {} THEN [num |-> 0, den |-> 1]
                        ELSE perpendicularDistance(points[maxIndex], first, last)
         IN  IF maxDist.num * epsilon.den * epsilon.den
                    > epsilon.num * epsilon.num * maxDist.den
             THEN DropLast(simplifyPath(SubSeq(points, 1, maxIndex), epsilon))
                    \o simplifyPath(SubSeq(points, maxIndex, Len(points)), epsilon)
             ELSE <<first, last>>

ChoosePoints ==
    /\ dpArgs = NullRecord
    /\ \E points \in PointLists, epsilon \in Epsilons :
          dpArgs' = [points |-> points, epsilon |-> epsilon]
    /\ UNCHANGED <<strokeOnce, strokeTwice, pathOnce, pathTwice>>
    /\ UNCHANGED simplifyRest

SimplifyStroke ==
    /\ dpArgs # NullRecord
    /\ strokeOnce = NullRecord
    /\ strokeOnce' = [points |-> simplifyStroke(dpArgs.points, dpArgs.epsilon)]
    /\ UNCHANGED <<dpArgs, strokeTwice, pathOnce, pathTwice>>
    /\ UNCHANGED simplifyRest

SimplifyStrokeAgain ==
    /\ strokeOnce # NullRecord
    /\ strokeTwice = NullRecord
    /\ strokeTwice' = [points |-> simplifyStroke(strokeOnce.points, dpArgs.epsilon)]
    /\ UNCHANGED <<dpArgs, strokeOnce, pathOnce, pathTwice>>
    /\ UNCHANGED simplifyRest

SimplifyPath ==
    /\ dpArgs # NullRecord
    /\ pathOnce = NullRecord
    /\ pathOnce' = [points |-> simplifyPath(dpArgs.points, dpArgs.epsilon)]
    /\ UNCHANGED <<dpArgs, strokeOnce, strokeTwice, pathTwice>>
    /\ UNCHANGED simplifyRest

SimplifyPathAgain ==
    /\ pathOnce # NullRecord
    /\ pathTwice = NullRecord
    /\ pathTwice' = [points |-> simplifyPath(pathOnce.points, dpArgs.epsilon)]
    /\ UNCHANGED <<dpArgs, strokeOnce, strokeTwice, pathOnce>>
    /\ UNCHANGED simplifyRest

SimplifyInit == BaseIdle /\ StageIdle

SimplifyNext ==
    \/ ChoosePoints
    \/ SimplifyStroke
    \/ SimplifyStrokeAgain
    \/ SimplifyPath
    \/ SimplifyPathAgain

SpecSimplify == SimplifyInit /\ [][SimplifyNext]_vars

\* C15: Douglas-Peucker with epsilon = 0 is the identity: for every point
\* list P, collinear and repeated points included, simplifyStroke(P, 0) = P
\* and simplifyPath(P, 0) = P.
C15_ZeroEpsilonIsIdentity ==
    (dpArgs # NullRecord /\ dpArgs.epsilon.num = 0) =>
        /\ strokeOnce # NullRecord => strokeOnce.points = dpArgs.points
        /\ pathOnce # NullRecord => pathOnce.points = dpArgs.points

KeepsEnds(out, points) ==
    Len(points) >= 1 =>
        /\ Len(out) >= 1
        /\ out[1] = points[1]
        /\ out[Len(out)] = points[Len(points)]

\* C16: Douglas-Peucker is idempotent: for every epsilon >= 0 and point list
\* P, simplifying the simplified list again with the same epsilon returns
\* it unchanged, for simplifyStroke and for simplifyPath, and the first and
\* last points of P are always retained.
C16_SimplifyIdempotent ==
    /\ strokeOnce # NullRecord => KeepsEnds(strokeOnce.points, dpArgs.points)
    /\ pathOnce # NullRecord => KeepsEnds(pathOnce.points, dpArgs.points)
    /\ strokeTwice # NullRecord => strokeTwice.points = strokeOnce.points
    /\ pathTwice # NullRecord => pathTwice.points = pathOnce.points

\* a list that the first pass shortened, but not to its two ends, has been
\* simplified twice by both functions
C16_Witness ==
    /\ strokeTwice # NullRecord
    /\ pathTwice # NullRecord
    /\ Len(strokeOnce.points) < Len(dpArgs.points)
    /\ Len(strokeOnce.points) > 2
    /\ Len(pathOnce.points) < Len(dpArgs.points)
    /\ Len(pathOnce.points) > 2

(***************************************************************************)
(* PathConverter.ts: calculateSignedArea, extractPointsFromCommands and    *)
(* reverseContour.  A PathCommand is a record holding its code and the     *)
(* fields that are defined for it; a field that is undefined is absent.    *)
(* The closepath command of the parsed list is taken both ways: bare, and  *)
(* carrying the x and y of the subpath's start.                            *)
(***************************************************************************)
MaxSegments == 3

ContourPoints == {<<0, 0>>, <<2, 0>>, <<2, 2>>, <<0, 2>>}

MoveTo(p) == [code |-> "M", x |-> p[1], y |-> p[2]]

LineTo(p) == [code |-> "L", x |-> p[1], y |-> p[2]]

QuadTo(p) == [code |-> "Q", x1 |-> 1, y1 |-> 1, x |-> p[1], y |-> p[2]]

CurveTo(p) ==
    [code |-> "C", x1 |-> 1, y1 |-> 0, x2 |-> 0, y2 |-> 1, x |-> p[1], y |-> p[2]]

Segments == {LineTo(p) : p \in ContourPoints}
                \cup {QuadTo(p) : p \in ContourPoints}
                \cup {CurveTo(p) : p \in ContourPoints}

ClosePaths(start) == {[code |-> "Z"], [code |-> "Z", x |-> start[1], y |-> start[2]]}

Contours ==
    UNION {{<<MoveTo(start)>> \o segs \o <<z>> :
                segs \in [1..n -> Segments], z \in ClosePaths(start)} :
            n \in 1..MaxSegments, start \in ContourPoints}

\* cmd.x !== undefined && cmd.y !== undefined
HasPoint(cmd) == "x" \in DOMAIN cmd /\ "y" \in DOMAIN cmd

RECURSIVE extractPointsFromCommands(_)
extractPointsFromCommands(commands) ==
    IF commands = <<>> THEN <<>>
    ELSE (IF HasPoint(Head(commands))
          THEN <<[x |-> Head(commands).x, y |-> Head(commands).y]>>
          ELSE <<>>) \o extractPointsFromCommands(Tail(commands))

RECURSIVE ShoelaceSum(_, _)
ShoelaceSum(points, k) ==
    IF k > Len(points) THEN 0
    ELSE LET j == (k % Len(points)) + 1
         IN  points[k].x * points[j].y - points[j].x * points[k].y
                + ShoelaceSum(points, k + 1)

\* calculateSignedArea: area / 2, kept as the fraction num / 2
calculateSignedArea(points) ==
    IF Len(points) < 3 THEN [num |-> 0, den |-> 2]
    ELSE [num |-> ShoelaceSum(points, 1), den |-> 2]

\* the loop of lines 63-67: the last command that has a point
RECURSIVE LastPoint(_, _)
LastPoint(commands, sofar) ==
    IF commands = <<>> THEN sofar
    ELSE LastPoint(Tail(commands),
            IF HasPoint(Head(commands))
            THEN [x |-> Head(commands).x, y |-> Head(commands).y]
            ELSE sofar)

\* the loop of lines 72-114, from command k down to the first
RECURSIVE ReverseFrom(_, _, _)
ReverseFrom(commands, firstM, k) ==
    IF k < 1 THEN <<>>
    ELSE LET cmd == commands[k]
             prevCmd == IF k > 1 THEN commands[k - 1] ELSE firstM
             prevPoint == IF HasPoint(prevCmd)
                          THEN [x |-> prevCmd.x, y |-> prevCmd.y]
                          ELSE [x |-> firstM.x, y |-> firstM.y]
             emitted ==
                CASE cmd.code = "L" ->
                        <<[code |-> "L", x |-> prevPoint.x, y |-> prevPoint.y]>>
                  [] cmd.code = "C" ->
                        <<[code |-> "C", x1 |-> cmd.x2, y1 |-> cmd.y2,
                           x2 |-> cmd.x1, y2 |-> cmd.y1,
                           x |-> prevPoint.x, y |-> prevPoint.y]>>
                  [] cmd.code = "Q" ->
                        <<[code |-> "Q", x1 |-> cmd.x1, y1 |-> cmd.y1,
                           x |-> prevPoint.x, y |-> prevPoint.y]>>
                  [] OTHER -> <<>>
         IN  emitted \o ReverseFrom(commands, firstM, k - 1)

reverseContour(commands) ==
    IF commands = <<>> THEN commands
    ELSE IF \A k \in 1..Len(commands) : commands[k].code # "M" THEN commands
    ELSE LET firstM == commands[CHOOSE k \in 1..Len(commands) :
                            /\ commands[k].code = "M"
                            /\ \A m \in 1..(k - 1) : commands[m].code # "M"]
             lastPoint == LastPoint(commands, [x |-> firstM.x, y |-> firstM.y])
         IN  <<[code |-> "M", x |-> lastPoint.x, y |-> lastPoint.y]>>
                \o ReverseFrom(commands, firstM, Len(commands))
                \o <<[code |-> "Z"]>>

ChooseContour ==
    /\ contour = NullRecord
    /\ \E commands \in Contours : contour' = [commands |-> commands]
    /\ UNCHANGED reversedContour
    /\ UNCHANGED contourRest

ReverseContour ==
    /\ contour # NullRecord
    /\ reversedContour = NullRecord
    /\ reversedContour' = [commands |-> reverseContour(contour.commands)]
    /\ UNCHANGED contour
    /\ UNCHANGED contourRest

ContourInit == BaseIdle /\ StageIdle

ContourNext == ChooseContour \/ ReverseContour

SpecContour == ContourInit /\ [][ContourNext]_vars

\* The vertices a contour visits, in order: the point of its moveto and the
\* end of each segment, the closing return to the start left out
VerticesOf(commands) ==
    LET ends == extractPointsFromCommands(
                    SelectSeq(commands, LAMBDA c : c.code # "Z"))
    IN  IF Len(ends) > 1 /\ ends[Len(ends)] = ends[1]
        THEN SubSeq(ends, 1, Len(ends) - 1)
        ELSE ends

ReverseSeq(s) == [k \in 1..Len(s) |-> s[Len(s) + 1 - k]]

\* s is t read from some vertex on, around the loop
IsRotationOf(s, t) ==
    /\ Len(s) = Len(t)
    /\ Len(s) = 0 \/ \E shift \in 0..(Len(s) - 1) :
          \A k \in 1..Len(s) : s[k] = t[((k - 1 + shift) % Len(t)) + 1]

\* C17: for every closed contour C (M, then L/Q/C segments, then Z) the
\* signed area that calculateSignedArea gives for the points of
\* reverseContour(C) is the negation of the signed area of C, and
\* reverseContour(C) visits the same vertices as C in reverse order.
C17_ReverseNegatesArea ==
    reversedContour # NullRecord =>
        /\ calculateSignedArea(extractPointsFromCommands(reversedContour.commands)).num
              = -calculateSignedArea(extractPointsFromCommands(contour.commands)).num
        /\ IsRotationOf(VerticesOf(reversedContour.commands),
                        ReverseSeq(VerticesOf(contour.commands)))

(***************************************************************************)
(* MonolineProcessor.ts: the stroke pipeline of processMonoline.  A stroke *)
(* is the sequence of its points <<x, y>>; its length, a sum of square     *)
(* roots, is compared from the points.                                     *)
(***************************************************************************)

\* getNeighbors: dy from -1 to 1, and within it dx from -1 to 1
NeighborOffsets ==
    << <<-1, -1>>, <<0, -1>>, <<1, -1>>, <<-1, 0>>,
       <<1, 0>>, <<-1, 1>>, <<0, 1>>, <<1, 1>> >>

\* isInk(x, y), with its bounds check
isInk(image, p) == p \in DOMAIN image.data /\ image.data[p] > 128

\* the ink neighbours of p, in the order getNeighbors returns them
InkNeighbors(image, p) ==
    LET around == [k \in 1..8 |->
                    <<p[1] + NeighborOffsets[k][1], p[2] + NeighborOffsets[k][2]>>]
    IN  SelectSeq(around, LAMBDA q : isInk(image, q))

\* allPixels: the ink pixels row by row, from index k of the raster on
RECURSIVE AllPixelsFrom(_, _)
AllPixelsFrom(image, k) ==
    IF k >= image.width * image.height THEN <<>>
    ELSE LET p == <<k % image.width, k \div image.width>>
         IN  (IF isInk(image, p) THEN <<p>> ELSE <<>>)
                \o AllPixelsFrom(image, k + 1)

\* the while loop of walkPath: the first unvisited neighbour is taken,
\* whatever the number of neighbours of the current pixel
RECURSIVE WalkOn(_, _, _)
WalkOn(image, points, visited) ==
    LET unvisited == SelectSeq(InkNeighbors(image, points[Len(points)]),
                               LAMBDA q : q \notin visited)
    IN  IF unvisited = <<>> THEN [points |-> points, visited |-> visited]
        ELSE WalkOn(image, Append(points, unvisited[1]),
                    visited \cup {unvisited[1]})

\* walkPath(start): null (no stroke) from a visited start or when the walk
\* has fewer than two points
walkPath(image, start, visited) ==
    IF start \in visited THEN [strokes |-> <<>>, visited |-> visited]
    ELSE LET walk == WalkOn(image, <<start>>, visited \cup {start})
         IN  [strokes |-> IF Len(walk.points) < 2 THEN <<>> ELSE <<walk.points>>,
              visited |-> walk.visited]

\* one of the two passes: walkPath from each seed in turn
RECURSIVE WalkSeeds(_, _, _, _)
WalkSeeds(image, seeds, found, visited) ==
    IF seeds = <<>> THEN [strokes |-> found, visited |-> visited]
    ELSE LET walk == walkPath(image, Head(seeds), visited)
         IN  WalkSeeds(image, Tail(seeds), found \o walk.strokes, walk.visited)

extractStrokesFromSkeleton(skeletonData) ==
    LET allPixels == AllPixelsFrom(skeletonData, 0)
        endpoints == SelectSeq(allPixels,
                        LAMBDA p : Len(InkNeighbors(skeletonData, p)) = 1)
        firstPass == WalkSeeds(skeletonData, endpoints, <<>>, {})
    IN  WalkSeeds(skeletonData, allPixels, firstPass.strokes, firstPass.visited).strokes

\* analyzeSkeletonImage: the counts and the bounding box
analyzeSkeletonImage(image) ==
    LET ink == {p \in DOMAIN image.data : isInk(image, p)}
        minX == SetMin({image.width} \cup {p[1] : p \in ink})
        minY == SetMin({image.height} \cup {p[2] : p \in ink})
        maxX == SetMax({0} \cup {p[1] : p \in ink})
        maxY == SetMax({0} \cup {p[2] : p \in ink})
    IN  [totalPixels |-> Cardinality(ink),
         endpoints |-> Cardinality({p \in ink : Len(InkNeighbors(image, p)) = 1}),
         junctions |-> Cardinality({p \in ink : Len(InkNeighbors(image, p)) > 2}),
         boundingBox |-> [x |-> minX, y |-> minY,
                          width |-> maxX - minX + 1,
                          height |-> maxY - minY + 1]]

\* Math.floor(n / d) for d > 0
FloorDiv(n, d) == IF n >= 0 THEN n \div d ELSE -((-n + d - 1) \div d)

\* calculatePruneThreshold: max(3, floor(size * 0.05))
calculatePruneThreshold(bbox) ==
    Max(3, FloorDiv(Min(bbox.width, bbox.height) * 5, 100))

\* calculateSimplifyEpsilon: max(0.5, size * 0.005), as a fraction
calculateSimplifyEpsilon(bbox) ==
    IF Min(bbox.width, bbox.height) <= 100
    THEN [num |-> 1, den |-> 2]
    ELSE [num |-> Min(bbox.width, bbox.height), den |-> 200]

\* the default join gap max(5, min(width, height) * 0.3), in tenths of a pixel
DefaultJoinGapTenths(bbox) == Max(50, Min(bbox.width, bbox.height) * 3)

\* dist(a, b) <= maxGap, maxGap in tenths of a pixel
WithinGap(a, b, gapTenths) == 100 * DistSq(a, b) <= gapTenths * gapTenths

\* only the first of the four tests
CombineStrokes_EndToStartOnly(s1, s2, gapTenths) ==
    IF WithinGap(s1[Len(s1)], s2[1], gapTenths) THEN s1 \o s2 ELSE <<>>

\* the combined points of two strokes, or <<>> when no pair of their
\* termini is within the gap: the four tests in the order of the code
CombineStrokes(s1, s2, gapTenths) ==
    LET p1s == s1[1]
        p1e == s1[Len(s1)]
        p2s == s2[1]
        p2e == s2[Len(s2)]
    IN  IF WithinGap(p1e, p2s, gapTenths) THEN s1 \o s2
        ELSE IF WithinGap(p1e, p2e, gapTenths) THEN s1 \o ReverseSeq(s2)
        ELSE IF WithinGap(p1s, p2s, gapTenths) THEN ReverseSeq(s1) \o s2
        ELSE IF WithinGap(p1s, p2e, gapTenths) THEN s2 \o s1
        ELSE <<>>

RemoveAt(s, k) == SubSeq(s, 1, k - 1) \o SubSeq(s, k + 1, Len(s))

\* joinNearbyStrokes: the first pair a < b that can be combined replaces
\* stroke a, stroke b is spliced out, and the scan starts again
RECURSIVE joinNearbyStrokes(_, _)
joinNearbyStrokes(strokeList, gapTenths) ==
    IF Len(strokeList) < 2 THEN strokeList
    ELSE LET pairs == {ab \in (1..Len(strokeList)) \X (1..Len(strokeList)) :
                        /\ ab[1] < ab[2]
                        /\ CombineStrokes(strokeList[ab[1]], strokeList[ab[2]],
                                          gapTenths) # <<>>}
         IN  IF pairs = {} THEN strokeList
             ELSE LET ab == CHOOSE c \in pairs :
                                \A e \in pairs :
                                    c[1] < e[1] \/ (c[1] = e[1] /\ c[2] <= e[2])
                      combined == CombineStrokes(strokeList[ab[1]],
                                                 strokeList[ab[2]], gapTenths)
                  IN  joinNearbyStrokes(
                        RemoveAt([strokeList EXCEPT ![ab[1]] = combined], ab[2]),
                        gapTenths)

\* floor(100 * sqrt(n))
Sqrt100(n) == CHOOSE r \in 0..(100 * (n + 1)) :
                 r * r <= 10000 * n /\ (r + 1) * (r + 1) > 10000 * n

RECURSIVE LengthFloor100(_, _)
LengthFloor100(pts, k) ==
    IF k > Len(pts) THEN 0
    ELSE Sqrt100(DistSq(pts[k], pts[k - 1])) + LengthFloor100(pts, k + 1)

\* the segments whose length is not a whole number of hundredths
InexactSegments(pts) ==
    Cardinality({k \in 2..Len(pts) :
        Sqrt100(DistSq(pts[k], pts[k - 1])) * Sqrt100(DistSq(pts[k], pts[k - 1]))
            # 10000 * DistSq(pts[k], pts[k - 1])})

\* s.length >= threshold.  The length lies between LengthFloor100 / 100
\* and that plus a hundredth per inexact segment.
LengthAtLeast(pts, threshold) == LengthFloor100(pts, 2) >= 100 * threshold

\* the threshold is not inside the interval that holds the length
LengthDecided(pts, threshold) ==
    \/ LengthFloor100(pts, 2) >= 100 * threshold
    \/ LengthFloor100(pts, 2) + InexactSegments(pts) <= 100 * threshold
          /\ (InexactSegments(pts) > 0
                \/ LengthFloor100(pts, 2) < 100 * threshold)

pruneShortStrokes(strokeList, threshold) ==
    SelectSeq(strokeList, LAMBDA s : LengthAtLeast(s, threshold))

\* ---------------------------------------------------------------------
\* processMonoline (MonolineProcessor.ts): polarity, thinning, statistics,
\* stroke extraction, joining, pruning, smoothing and welding
\* ---------------------------------------------------------------------

\* the most ink pixels of a mask given to processMonoline
MaxMonoInk == 6

MonoSize == ThinSize

MonoImages ==
    {ImageOf(MonoSize, MonoSize, ink) :
        ink \in {s \in SUBSET PixelsOf(MonoSize, MonoSize) :
                    Cardinality(s) <= MaxMonoInk}}

\* the options of processMonoline that are given; a field that is absent is
\* undefined.  smoothingIterations and simplifyEpsilon keep their defaults
MonoOptions ==
    { [joinStrokes |-> TRUE],
      [joinStrokes |-> TRUE, pruneThreshold |-> 6],
      [joinStrokes |-> TRUE, joinMaxGap |-> 2],
      [joinStrokes |-> TRUE, joinMaxGap |-> 1, pruneThreshold |-> 1],
      [joinStrokes |-> FALSE] }

smoothingIterations == 2
maxPasses == 10
weldRadius == 3

\* smoothStrokeMovingAverage(points, 2) averages 2 or 3 points and each
\* Chaikin iteration divides by 4: smoothed coordinates are held exactly
\* in units of 1/SmoothScale pixel
AverageScale == 2 * 3
ChaikinScale == 4 * 4
SmoothScale == AverageScale * ChaikinScale

\* a welded cluster of the strokes of such a mask has 2 to 6 endpoints:
\* welded coordinates are held exactly in units of 1/WeldedScale pixel
ClusterScale == 3 * 4 * 5
WeldedScale == SmoothScale * ClusterScale

TimesPoint(p, k) == <<p[1] * k, p[2] * k>>
TimesStroke(pts, k) == [n \in 1..Len(pts) |-> TimesPoint(pts[n], k)]
OverPoint(p, k) == <<p[1] \div k, p[2] \div k>>

RECURSIVE SumCoord(_, _, _)
SumCoord(members, points, axis) ==
    IF members = {} THEN 0
    ELSE LET j == CHOOSE m \in members : TRUE
         IN  points[j][axis] + SumCoord(members \ {j}, points, axis)

\* smoothStrokeMovingAverage: the input when it is no longer than the
\* window, else the mean of the points of the window that exist; the
\* result is in units of 1/AverageScale of the input's
smoothStrokeMovingAverage(points, windowSize) ==
    IF Len(points) <= windowSize THEN TimesStroke(points, AverageScale)
    ELSE LET halfWindow == windowSize \div 2
             window(n) == {j \in (n - halfWindow)..(n + halfWindow) :
                              j >= 1 /\ j <= Len(points)}
             sumX(n) == SumCoord(window(n), points, 1)
             sumY(n) == SumCoord(window(n), points, 2)
         IN  [n \in 1..Len(points) |->
                <<(sumX(n) * AverageScale) \div Cardinality(window(n)),
                  (sumY(n) * AverageScale) \div Cardinality(window(n))>>]

\* one iteration of smoothStrokeChaikin, in units of 1/4 of the input's:
\* the first point, Q and R of every segment, the last point
RECURSIVE ChaikinCuts(_, _)
ChaikinCuts(current, n) ==
    IF n >= Len(current) THEN <<>>
    ELSE LET p0 == current[n]
             p1 == current[n + 1]
         IN  << <<3 * p0[1] + p1[1], 3 * p0[2] + p1[2]>>,
                <<p0[1] + 3 * p1[1], p0[2] + 3 * p1[2]>> >>
             \o ChaikinCuts(current, n + 1)

ChaikinIteration(current) ==
    <<TimesPoint(current[1], 4)>> \o ChaikinCuts(current, 1)
        \o <<TimesPoint(current[Len(current)], 4)>>

RECURSIVE ChaikinLoop(_, _)
ChaikinLoop(current, iter) ==
    IF iter = 0 THEN current
    ELSE ChaikinLoop(ChaikinIteration(current), iter - 1)

RECURSIVE PowerOf4(_)
PowerOf4(n) == IF n = 0 THEN 1 ELSE 4 * PowerOf4(n - 1)

\* smoothStrokeChaikin, in units of 1/4^iterations of the input's
smoothStrokeChaikin(points, iters) ==
    IF Len(points) < 3 \/ iters = 0
    THEN TimesStroke(points, PowerOf4(iters))
    ELSE ChaikinLoop(points, iters)

\* step 8 for one stroke: moving average, Chaikin, Douglas-Peucker
SmoothOne(points, simplifyEps) ==
    LET averaged == smoothStrokeMovingAverage(points, 2)
        cut == IF smoothingIterations > 0
               THEN smoothStrokeChaikin(averaged, smoothingIterations)
               ELSE averaged
    IN  simplifyStroke(cut, [num |-> simplifyEps.num * SmoothScale,
                             den |-> simplifyEps.den])

\* countNearbyEndpoints: the pairs a < b of collected endpoints within the
\* radius, the two ends of one stroke included
countNearbyEndpoints(strokeList, radius) ==
    LET endpoints == CollectEndpoints(strokeList, 1)
    IN  Cardinality({ab \in (1..Len(endpoints)) \X (1..Len(endpoints)) :
                        /\ ab[1] < ab[2]
                        /\ WithinRadius(endpoints[ab[1]].point,
                                        endpoints[ab[2]].point, radius)})

\* step 9: weldEndpoints on the smoothed strokes; the centroids are exact
\* in units of 1/WeldedScale pixel
WeldSmoothed(strokeList) ==
    LET fine == [n \in 1..Len(strokeList) |-> TimesStroke(strokeList[n], ClusterScale)]
        out == weldEndpoints(fine, weldRadius * WeldedScale)
    IN  [n \in 1..Len(out) |->
            [m \in 1..Len(out[n]) |-> OverPoint(out[n][m], WeldScale)]]

\* the thresholds of step 5
PruneThresholdOf(options, st) ==
    IF "pruneThreshold" \in DOMAIN options THEN options.pruneThreshold
    ELSE calculatePruneThreshold(st.boundingBox)

JoinGapTenthsOf(options, st) ==
    IF "joinMaxGap" \in DOMAIN options THEN 10 * options.joinMaxGap
    ELSE DefaultJoinGapTenths(st.boundingBox)

\* step 1: ensureForegroundInk(binaryMask, true)
Mono_Prepare ==
    /\ monoPc = "idle"
    /\ \E image \in MonoImages, options \in MonoOptions :
        /\ binaryMask' = image
        /\ monoOptions' = options
        /\ prepared' = ensureForegroundInk(image, TRUE)
    /\ monoPc' = "thin"
    /\ UNCHANGED <<skeleton, stats, rawStrokes, strokes, passes, prevCount,
                   joined, smoothedStrokes, weldedStrokes, nearAfterWelding>>
    /\ UNCHANGED monoOutside

\* step 2: zhangSuenThinning(prepared)
Mono_Thin ==
    /\ monoPc = "thin"
    /\ skeleton' = zhangSuenThinning(prepared)
    /\ monoPc' = "analyze"
    /\ UNCHANGED <<binaryMask, prepared, monoOptions, stats, rawStrokes, strokes,
                   passes, prevCount, joined, smoothedStrokes, weldedStrokes,
                   nearAfterWelding>>
    /\ UNCHANGED monoOutside

\* step 3: analyzeSkeletonImage(skeleton)
Mono_Analyze ==
    /\ monoPc = "analyze"
    /\ stats' = analyzeSkeletonImage(skeleton)
    /\ monoPc' = "extract"
    /\ UNCHANGED <<binaryMask, prepared, skeleton, monoOptions, rawStrokes, strokes,
                   passes, prevCount, joined, smoothedStrokes, weldedStrokes,
                   nearAfterWelding>>
    /\ UNCHANGED monoOutside

\* steps 4 to 6 up to the loop: extractStrokesFromSkeleton, let strokes =
\* rawStrokes, and the test joinStrokes && strokes.length > 1
Mono_Extract ==
    /\ monoPc = "extract"
    /\ rawStrokes' = extractStrokesFromSkeleton(skeleton)
    /\ strokes' = rawStrokes'
    /\ IF monoOptions.joinStrokes /\ Len(rawStrokes') > 1
       THEN /\ prevCount' = Len(rawStrokes')
            /\ passes' = 0
            /\ monoPc' = "join"
            /\ UNCHANGED joined
       ELSE /\ monoPc' = "prune"
            /\ joined' = rawStrokes'
            /\ UNCHANGED <<prevCount, passes>>
    /\ UNCHANGED <<binaryMask, prepared, skeleton, monoOptions, stats,
                   smoothedStrokes, weldedStrokes, nearAfterWelding>>
    /\ UNCHANGED monoOutside

\* one pass of the join loop: while (passes < maxPasses) { join; passes++;
\* break when the count did not change }
Mono_JoinPass ==
    /\ monoPc = "join"
    /\ passes < maxPasses
    /\ strokes' = joinNearbyStrokes(strokes, JoinGapTenthsOf(monoOptions, stats))
    /\ passes' = passes + 1
    /\ IF Len(strokes') = prevCount \/ passes' >= maxPasses
       THEN /\ monoPc' = "prune"
            /\ joined' = strokes'
            /\ UNCHANGED prevCount
       ELSE /\ prevCount' = Len(strokes')
            /\ UNCHANGED <<monoPc, joined>>
    /\ UNCHANGED <<binaryMask, prepared, skeleton, monoOptions, stats, rawStrokes,
                   smoothedStrokes, weldedStrokes, nearAfterWelding>>
    /\ UNCHANGED monoOutside

\* step 7: pruneShortStrokes(strokes, pruneThreshold)
Mono_Prune ==
    /\ monoPc = "prune"
    /\ strokes' = pruneShortStrokes(strokes, PruneThresholdOf(monoOptions, stats))
    /\ monoPc' = "smooth"
    /\ UNCHANGED <<binaryMask, prepared, skeleton, monoOptions, stats, rawStrokes,
                   passes, prevCount, joined, smoothedStrokes, weldedStrokes,
                   nearAfterWelding>>
    /\ UNCHANGED monoOutside

\* step 8: smooth and simplify each stroke
Mono_Smooth ==
    /\ monoPc = "smooth"
    /\ smoothedStrokes' =
         [n \in 1..Len(strokes) |->
            SmoothOne(strokes[n], calculateSimplifyEpsilon(stats.boundingBox))]
    /\ monoPc' = "weld"
    /\ UNCHANGED <<binaryMask, prepared, skeleton, monoOptions, stats, rawStrokes,
                   strokes, passes, prevCount, joined, weldedStrokes,
                   nearAfterWelding>>
    /\ UNCHANGED monoOutside

\* step 9 and the return: weldEndpoints(smoothedStrokes, 3) and the count
\* "After welding" of the drift analysis
Mono_Weld ==
    /\ monoPc = "weld"
    /\ weldedStrokes' = WeldSmoothed(smoothedStrokes)
    /\ nearAfterWelding' = countNearbyEndpoints(weldedStrokes', 3 * WeldedScale)
    /\ monoPc' = "done"
    /\ UNCHANGED <<binaryMask, prepared, skeleton, monoOptions, stats, rawStrokes,
                   strokes, passes, prevCount, joined, smoothedStrokes>>
    /\ UNCHANGED monoOutside

MonoInit == BaseIdle /\ StageIdle

MonoNext ==
    \/ Mono_Prepare
    \/ Mono_Thin
    \/ Mono_Analyze
    \/ Mono_Extract
    \/ Mono_JoinPass
    \/ Mono_Prune
    \/ Mono_Smooth
    \/ Mono_Weld

SpecMonoline == MonoInit /\ [][MonoNext]_vars

\* the strokes have been extracted from the skeleton
Extracted == monoPc \in {"join", "prune", "smooth", "weld", "done"}

IsEndpointPixel(image, p) == Len(InkNeighbors(image, p)) = 1

IsJunctionPixel(image, p) == Len(InkNeighbors(image, p)) > 2

\* a closed loop without endpoints: connected ink whose pixels all have
\* exactly two ink neighbours
IsRing(image) ==
    /\ InkOf(image) # {}
    /\ IsConnected(InkOf(image))
    /\ \A p \in InkOf(image) : Len(InkNeighbors(image, p)) = 2

PointsOf(pts) == {pts[n] : n \in 1..Len(pts)}

\* C19: in extractStrokesFromSkeleton a walk started at an endpoint (an ink
\* pixel with exactly one ink neighbour) consumes pixels until it reaches a
\* junction pixel (more than 2 ink neighbours) or a dead end and stops
\* there, so a junction is never followed by a further point of the stroke;
\* and the pixels not yet consumed are used as seeds, so a closed loop
\* without endpoints is returned as a stroke.
C19_WalkStopsAtJunctionOrDeadEnd ==
    Extracted =>
        /\ \A n \in 1..Len(rawStrokes) :
              IsEndpointPixel(skeleton, rawStrokes[n][1]) =>
                  \A m \in 1..(Len(rawStrokes[n]) - 1) :
                      ~IsJunctionPixel(skeleton, rawStrokes[n][m])
        /\ IsRing(skeleton) =>
              \E n \in 1..Len(rawStrokes) :
                  PointsOf(rawStrokes[n]) = InkOf(skeleton)

\* the join step has ended
JoinEnded == monoPc \in {"prune", "smooth", "weld", "done"}

\* pruneShortStrokes has been applied
Pruned == monoPc \in {"smooth", "weld", "done"}

TerminiOf(pts) == {pts[1], pts[Len(pts)]}

\* some terminus of one stroke is within the join gap of some terminus of the other
TerminiWithinGap(s1, s2) ==
    \E a \in TerminiOf(s1), b \in TerminiOf(s2) :
        WithinGap(a, b, JoinGapTenthsOf(monoOptions, stats))

\* the points of piece, forwards or backwards, are consecutive points of whole
IsPieceOf(piece, whole) ==
    \E from \in 1..(Len(whole) - Len(piece) + 1) :
        LET part == SubSeq(whole, from, from + Len(piece) - 1)
        IN  part = piece \/ part = ReverseSeq(piece)

ShorterThanThreshold(pts) ==
    ~LengthAtLeast(pts, PruneThresholdOf(monoOptions, stats))

\* when the join step ends no two distinct strokes have termini within the
\* join gap of each other
NoJoinLeft ==
    \A a \in 1..Len(joined), b \in 1..Len(joined) :
        a # b => ~TerminiWithinGap(joined[a], joined[b])

\* a short raw stroke with a terminus within the join gap of a terminus of
\* another raw stroke is merged into one stroke with it
ShortStrokesMerged ==
    \A a \in 1..Len(rawStrokes), b \in 1..Len(rawStrokes) :
        (a # b /\ ShorterThanThreshold(rawStrokes[a])
               /\ TerminiWithinGap(rawStrokes[a], rawStrokes[b]))
            => \E k \in 1..Len(joined) :
                  /\ IsPieceOf(rawStrokes[a], joined[k])
                  /\ IsPieceOf(rawStrokes[b], joined[k])

\* every raw stroke is, forwards or backwards, a run of consecutive points
\* of a joined stroke: joining discards nothing
EveryRawStrokeKept ==
    \A a \in 1..Len(rawStrokes) :
        \E k \in 1..Len(joined) : IsPieceOf(rawStrokes[a], joined[k])

IsJoinedTerminus(p) == \E k \in 1..Len(joined) : p \in TerminiOf(joined[k])

\* a short raw stroke with a terminus within the join gap of a terminus of
\* another raw stroke is merged into one stroke with it, unless of every
\* such pair of termini one has become an inner point of a joined stroke
ShortStrokesMergedUnlessConsumed ==
    \A a \in 1..Len(rawStrokes), b \in 1..Len(rawStrokes) :
        (a # b /\ ShorterThanThreshold(rawStrokes[a])
               /\ TerminiWithinGap(rawStrokes[a], rawStrokes[b]))
            => \/ \E k \in 1..Len(joined) :
                     /\ IsPieceOf(rawStrokes[a], joined[k])
                     /\ IsPieceOf(rawStrokes[b], joined[k])
               \/ \A p \in TerminiOf(rawStrokes[a]), q \in TerminiOf(rawStrokes[b]) :
                     WithinGap(p, q, JoinGapTenthsOf(monoOptions, stats))
                        => ~IsJoinedTerminus(p) \/ ~IsJoinedTerminus(q)

LoopProcessed ==
    /\ monoPc = "done"
    /\ IsRing(skeleton)
    /\ Cardinality(InkOf(skeleton)) >= 4
    /\ "joinMaxGap" \notin DOMAIN monoOptions
    /\ "pruneThreshold" \notin DOMAIN monoOptions

\* the result of processMonoline: its field smoothedStrokes holds the welded strokes
ResultStrokes == weldedStrokes

\* C14: for a single-pixel-wide closed-loop skeleton (an 'O') run through
\* processMonoline with the default join gap, the result is exactly one
\* stroke whose first and last points have identical coordinates, and
\* countNearbyEndpoints(result, 3) = 0 after welding.
C14_ClosedLoopIsOneClosedStroke ==
    LoopProcessed =>
        /\ Len(ResultStrokes) = 1
        /\ ResultStrokes[1][1] = ResultStrokes[1][Len(ResultStrokes[1])]
        /\ nearAfterWelding = 0

\* ---------------------------------------------------------------------
\* removeSmallComponents (OpenCVProcessor.ts).  A pixel of a mat is
\* <<row, col>>: its first coordinate is y.
\* ---------------------------------------------------------------------

\* minArea, and rejectTopFraction in hundredths: the default 0 of the
\* function and the 0.15 processTemplatePage passes
MinAreas == {1, 2, 3}
RejectTopFractions == {0, 15}

NonZeroOf(mat) == {p \in Pixels : mat.data[p] # 0}

RECURSIVE SumRows(_)
SumRows(comp) ==
    IF comp = {} THEN 0
    ELSE LET p == CHOOSE q \in comp : TRUE
         IN  p[1] + SumRows(comp \ {p})

\* centroidY < imageHeight * rejectTopFraction, the centroid being the mean
\* of the rows of the component's pixels
CentroidInTopBand(comp, imageHeight, topHundredths) ==
    100 * SumRows(comp) < imageHeight * topHundredths * Cardinality(comp)

\* the test of the loop over the labels 1..numLabels-1: the component is kept
KeepsComponent(comp, imageHeight, minArea, topHundredths) ==
    /\ ~(Cardinality(comp) < minArea)
    /\ ~(topHundredths > 0 /\ CentroidInTopBand(comp, imageHeight, topHundredths))

\* cv.connectedComponentsWithStats with its default 8-connectivity: the
\* components of the non-zero pixels
connectedComponents(mat) == ComponentsOf(NonZeroOf(mat))

removeSmallComponents(cellMat, minArea, topHundredths) ==
    LET inkIsWhite == ensureInkIsWhite(cellMat)
        labelsToKeep == {comp \in connectedComponents(inkIsWhite) :
                            KeepsComponent(comp, cellMat.rows, minArea, topHundredths)}
    IN  MaskOf(UNION labelsToKeep)

\* processTemplatePage holds the mask of a cell, ink = 255
ChooseCellMat ==
    /\ ccArgs = NullRecord
    /\ \E mat \in BinaryMasks, minArea \in MinAreas, top \in RejectTopFractions :
          ccArgs' = [binaryMat |-> mat, minArea |-> minArea, rejectTopFraction |-> top]
    /\ UNCHANGED ccResult
    /\ UNCHANGED componentRest

RemoveSmallComponents ==
    /\ ccArgs # NullRecord
    /\ ccResult = NullRecord
    /\ ccResult' = removeSmallComponents(ccArgs.binaryMat, ccArgs.minArea,
                                         ccArgs.rejectTopFraction)
    /\ UNCHANGED ccArgs
    /\ UNCHANGED componentRest

ComponentInit == BaseIdle /\ StageIdle

ComponentNext == ChooseCellMat \/ RemoveSmallComponents

SpecComponents == ComponentInit /\ [][ComponentNext]_vars

\* the ink components of the argument that the claim says are kept
InkComponentsToKeep ==
    {comp \in ComponentsOf(NonZeroOf(ccArgs.binaryMat)) :
        /\ Cardinality(comp) >= ccArgs.minArea
        /\ ~(100 * SumRows(comp)
               < ccArgs.binaryMat.rows * ccArgs.rejectTopFraction * Cardinality(comp))}

\* C21: removeSmallComponents keeps a connected ink component if and only
\* if its area >= minArea and its centroid y is not within the top
\* rejectTopFraction of the cell; the output mask is exactly the union of
\* the kept components: each component is kept whole or removed whole, no
\* pixel is added, and the background enclosed by a kept component stays
\* background.
C21_OutputIsUnionOfKeptComponents ==
    ccResult # NullRecord =>
        /\ NonZeroOf(ccResult) = UNION InkComponentsToKeep
        /\ NonZeroOf(ccResult) \subseteq NonZeroOf(ccArgs.binaryMat)
        /\ \A p \in Pixels : ccResult.data[p] \in {0, 255}

\* ---------------------------------------------------------------------
\* The bounding-box filter of extractPathFromSvg (PdfParser.ts 573-623),
\* on its own: every list of traced paths
\* ---------------------------------------------------------------------

\* the most paths of a traced SVG
MaxTracedPaths == 2

\* bounding-box areas in 1/10000 of the cell area, on both sides of 0.01%,
\* 60% and 85%
TracedAreas == {0, 1, 4000, 5999, 6000, 8500, 8501, 10000}

\* fills of both polarities, and the 'none' of a path without fill
TracedFills == {"rgb(255,255,255)", "#fff", "rgb(0,0,0)", "black", "none"}

TracedPaths == {[fill |-> f, area |-> a] : f \in TracedFills, a \in TracedAreas}

TracedPathLists == UNION {[1..n -> TracedPaths] : n \in 0..MaxTracedPaths}

\* imagetracer has traced the cell
TracePaths ==
    /\ tracedPaths = NullRecord
    /\ \E ps \in TracedPathLists : tracedPaths' = [paths |-> ps]
    /\ UNCHANGED envelope
    /\ UNCHANGED filterRest

ExtractPathFromSvg ==
    /\ tracedPaths # NullRecord
    /\ envelope = NullRecord
    /\ envelope' = extractPathFromSvg(tracedPaths.paths)
    /\ UNCHANGED tracedPaths
    /\ UNCHANGED filterRest

FilterInit == BaseIdle /\ StageIdle

FilterNext == TracePaths \/ ExtractPathFromSvg

SpecFilter == FilterInit /\ [][FilterNext]_vars

\* trace polarity: ink is traced with a white fill, background with a black one
IsInkPolarity(p) == p.fill \in WhiteFills
IsHolePolarity(p) == p.fill \in BlackFills

\* what the claim says is dropped: dust, and outlines over 85% of the cell
DroppedAsStated(p) ==
    \/ p.area < 1
    \/ IsInkPolarity(p) /\ p.area > 8500

KeptAsOutline(p) == ~DroppedAsStated(p) /\ IsInkPolarity(p)
KeptAsHole(p) == ~DroppedAsStated(p) /\ IsHolePolarity(p)

HasPolarity(p) == IsInkPolarity(p) \/ IsHolePolarity(p)

\* C22: in the bounding-box filter of the outline vectorizer every traced
\* path whose bounding-box area is below 0.01% of the cell area is dropped,
\* every outline (ink-polarity) path whose bounding-box area exceeds 85% of
\* the cell area is dropped, and each remaining path is classified as
\* exactly one of outline or hole, according to its trace polarity.
C22_FilterThenClassifyByPolarity ==
    envelope # NullRecord =>
        LET polar == SelectSeq(tracedPaths.paths, HasPolarity)
        IN  /\ SelectSeq(envelope.outlines, HasPolarity)
                  = SelectSeq(polar, KeptAsOutline)
            /\ SelectSeq(envelope.holes, HasPolarity)
                  = SelectSeq(polar, KeptAsHole)

\* ---------------------------------------------------------------------
\* normalizedSvgToOpentypePath, JSON format (PathConverter.ts 272-350).
\* Coordinates are in half font units, so that Math.round is not the
\* identity.
\* ---------------------------------------------------------------------

\* the most subpaths of an outline path
MaxSubpaths == 2

GlyphPoints == {<<0, 0>>, <<4, 0>>, <<4, 4>>, <<0, 3>>}

\* the vertex lists of the closed polygons over GlyphPoints that start at
\* <<0, 0>> or, for those that avoid it, at <<4, 0>>: 2 to 4 distinct vertices
VertexLists ==
    {vs \in UNION {[1..n -> GlyphPoints] : n \in 2..4} :
        /\ \A a \in 1..Len(vs), b \in 1..Len(vs) : a # b => vs[a] # vs[b]
        /\ vs[1] = (IF \E a \in 1..Len(vs) : vs[a] = <<0, 0>>
                    THEN <<0, 0>> ELSE <<4, 0>>)}

\* M, one L per further vertex, and the closepath, bare or with the
\* coordinates of the start
SubpathsOf(vs) ==
    {<<MoveTo(vs[1])>> \o [k \in 1..(Len(vs) - 1) |-> LineTo(vs[k + 1])] \o <<z>> :
        z \in ClosePaths(vs[1])}

Subpaths == UNION {SubpathsOf(vs) : vs \in VertexLists}

RECURSIVE Flatten(_)
Flatten(lists) ==
    IF lists = <<>> THEN <<>> ELSE Head(lists) \o Flatten(Tail(lists))

\* makeAbsolute(parseSVG(pathStr)) of an outline path: 1 to MaxSubpaths subpaths
OutlinePaths ==
    {Flatten(subs) : subs \in UNION {[1..n -> Subpaths] : n \in 1..MaxSubpaths}}

\* and of a hole path: one subpath
HolePaths == Subpaths

GlyphInputs ==
    {[outlines |-> os, holes |-> hs] :
        os \in {<<>>} \cup {<<o>> : o \in OutlinePaths},
        hs \in {<<>>} \cup {<<h>> : h \in HolePaths}}

\* splitIntoContours: a contour ends before an M that follows a command, and
\* after a Z
RECURSIVE SplitFrom(_, _, _)
SplitFrom(commands, k, current) ==
    IF k > Len(commands)
    THEN (IF current = <<>> THEN <<>> ELSE <<current>>)
    ELSE LET cmd == commands[k]
             before == IF cmd.code = "M" /\ current # <<>> THEN <<current>> ELSE <<>>
             open == IF cmd.code = "M" /\ current # <<>> THEN <<cmd>>
                     ELSE Append(current, cmd)
         IN  IF cmd.code = "Z"
             THEN before \o <<open>> \o SplitFrom(commands, k + 1, <<>>)
             ELSE before \o SplitFrom(commands, k + 1, open)

splitIntoContours(commands) == SplitFrom(commands, 1, <<>>)

\* Math.abs of a signed area num/2
AbsArea(c) ==
    LET a == calculateSignedArea(extractPointsFromCommands(c)).num
    IN  IF a < 0 THEN 0 - a ELSE a

\* always the first subpath
LargestIdx_First(subs) == 1

\* lines 288-297: the first subpath whose absolute area is greater than that
\* of every subpath before it and not less than that of any after it; the
\* first subpath when every area is 0
LargestIdx(subs) ==
    IF \A k \in 1..Len(subs) : AbsArea(subs[k]) = 0 THEN 1
    ELSE CHOOSE k \in 1..Len(subs) :
            /\ \A j \in 1..(k - 1) : AbsArea(subs[j]) < AbsArea(subs[k])
            /\ \A j \in (k + 1)..Len(subs) : AbsArea(subs[j]) <= AbsArea(subs[k])

\* Math.round of a number of half units, in half units
RoundHalves(v) == 2 * ((v + 1) \div 2)

\* emitContourToPath: the commands added to the path
RECURSIVE emitContourToPath(_)
emitContourToPath(commands) ==
    IF commands = <<>> THEN <<>>
    ELSE LET cmd == Head(commands)
             out == CASE cmd.code = "M" /\ HasPoint(cmd) ->
                            <<[code |-> "M", x |-> RoundHalves(cmd.x), y |-> RoundHalves(cmd.y)]>>
                      [] cmd.code = "L" /\ HasPoint(cmd) ->
                            <<[code |-> "L", x |-> RoundHalves(cmd.x), y |-> RoundHalves(cmd.y)]>>
                      [] cmd.code = "Z" -> <<[code |-> "Z"]>>
                      [] OTHER -> <<>>
         IN  out \o emitContourToPath(Tail(commands))

\* lines 307-322 and 334-349 for one contour: reversed when its area has
\* the wrong sign for its role, and emitted
FinalContour(role, c) ==
    LET signedArea == calculateSignedArea(extractPointsFromCommands(c)).num
        needsReverse == IF role = "outline" THEN signedArea < 0 ELSE signedArea > 0
    IN  [commands |-> IF needsReverse THEN reverseContour(c) ELSE c,
         reversed |-> needsReverse]

EmitRecord(role, pathIdx, subIdx, c) ==
    [role |-> role, path |-> pathIdx, subpath |-> subIdx, source |-> c,
     reversed |-> FinalContour(role, c).reversed,
     commands |-> emitContourToPath(FinalContour(role, c).commands)]

\* the subpaths of an outline path that are emitted: their indices
ContoursToEmit(subs, hasHoles) ==
    IF hasHoles /\ Len(subs) > 1 THEN <<LargestIdx(subs)>>
    ELSE [k \in 1..Len(subs) |-> k]

RECURSIVE FlattenCommands(_)
FlattenCommands(records) ==
    IF records = <<>> THEN <<>>
    ELSE Head(records).commands \o FlattenCommands(Tail(records))

\* JSON.parse(svgD) gave outlines and holes
Ot_Parse ==
    /\ otPc = "idle"
    /\ otInput' \in GlyphInputs
    /\ otPc' = "outlines"
    /\ otIdx' = 1
    /\ UNCHANGED <<otPath, otEmitted>>
    /\ UNCHANGED opentypeRest

\* the body of the loop over outlinePaths for one path
Ot_Outline ==
    /\ otPc = "outlines"
    /\ otIdx <= Len(otInput.outlines)
    /\ LET subs == splitIntoContours(otInput.outlines[otIdx])
           hasHoles == Len(otInput.holes) > 0
           picked == ContoursToEmit(subs, hasHoles)
           records == [k \in 1..Len(picked) |->
                          EmitRecord("outline", otIdx, picked[k], subs[picked[k]])]
       IN  /\ otEmitted' = otEmitted \o records
           /\ otPath' = otPath \o FlattenCommands(records)
    /\ otIdx' = otIdx + 1
    /\ UNCHANGED <<otPc, otInput>>
    /\ UNCHANGED opentypeRest

\* the loop over outlinePaths ends
Ot_OutlinesDone ==
    /\ otPc = "outlines"
    /\ otIdx > Len(otInput.outlines)
    /\ otPc' = "holes"
    /\ otIdx' = 1
    /\ UNCHANGED <<otInput, otPath, otEmitted>>
    /\ UNCHANGED opentypeRest

\* the body of the loop over holePaths for one path
Ot_Hole ==
    /\ otPc = "holes"
    /\ otIdx <= Len(otInput.holes)
    /\ LET subs == splitIntoContours(otInput.holes[otIdx])
           records == [k \in 1..Len(subs) |-> EmitRecord("hole", otIdx, k, subs[k])]
       IN  /\ otEmitted' = otEmitted \o records
           /\ otPath' = otPath \o FlattenCommands(records)
    /\ otIdx' = otIdx + 1
    /\ UNCHANGED <<otPc, otInput>>
    /\ UNCHANGED opentypeRest

\* the loop over holePaths ends and the path is returned
Ot_Return ==
    /\ otPc = "holes"
    /\ otIdx > Len(otInput.holes)
    /\ otPc' = "done"
    /\ UNCHANGED <<otInput, otIdx, otPath, otEmitted>>
    /\ UNCHANGED opentypeRest

OpentypeInit == BaseIdle /\ StageIdle

OpentypeNext == Ot_Parse \/ Ot_Outline \/ Ot_OutlinesDone \/ Ot_Hole \/ Ot_Return

SpecOpentype == OpentypeInit /\ [][OpentypeNext]_vars

\* the loop over the outline paths has ended
OutlinesEmitted == otPc \in {"holes", "done"}

\* the subpaths of outline path p, from the input alone
InputSubpaths(p) == splitIntoContours(otInput.outlines[p])

\* the indices of the subpaths of outline path p that were emitted, in order
EmittedSubpaths(p) ==
    LET mine == SelectSeq(otEmitted, LAMBDA r : r.role = "outline" /\ r.path = p)
    IN  [k \in 1..Len(mine) |-> mine[k].subpath]

\* the absolute value of twice the shoelace area of a subpath
TwiceAbsArea(c) ==
    LET a == ShoelaceSum(extractPointsFromCommands(c), 1)
    IN  IF Len(extractPointsFromCommands(c)) < 3 THEN 0
        ELSE IF a < 0 THEN 0 - a ELSE a

\* C23: in normalizedSvgToOpentypePath on a {outlines, holes} input, for
\* each outline path: if it has more than one subpath and the glyph has at
\* least one hole path, exactly one of its subpaths is emitted, one with the
\* largest absolute signed area, and the others are discarded; if the glyph
\* has no hole path, every subpath of every outline path is emitted.
C23_LargestSubpathWhenHoles ==
    OutlinesEmitted =>
        \A p \in 1..Len(otInput.outlines) :
            /\ (Len(InputSubpaths(p)) > 1 /\ Len(otInput.holes) >= 1) =>
                  /\ Len(EmittedSubpaths(p)) = 1
                  /\ \A j \in 1..Len(InputSubpaths(p)) :
                        TwiceAbsArea(InputSubpaths(p)[j])
                            <= TwiceAbsArea(InputSubpaths(p)[EmittedSubpaths(p)[1]])
            /\ Len(otInput.holes) = 0 =>
                  EmittedSubpaths(p) = [k \in 1..Len(InputSubpaths(p)) |-> k]

\* an outline path of two subpaths, the second the larger, in a glyph with
\* a hole path: the second subpath alone was emitted
C23_Witness ==
    /\ otPc = "done"
    /\ Len(otInput.holes) = 1
    /\ Len(otInput.outlines) = 1
    /\ Len(InputSubpaths(1)) = 2
    /\ TwiceAbsArea(InputSubpaths(1)[1]) < TwiceAbsArea(InputSubpaths(1)[2])
    /\ EmittedSubpaths(1) = <<2>>

\* twice the signed area of the commands of a contour
TwiceSignedArea(c) ==
    IF Len(extractPointsFromCommands(c)) < 3 THEN 0
    ELSE ShoelaceSum(extractPointsFromCommands(c), 1)

\* C24: after normalizedSvgToOpentypePath on a {outlines, holes} input,
\* every contour emitted for an outline has positive signed area
\* (counter-clockwise in y-up font space) and every contour emitted for a
\* hole has negative signed area (clockwise), whatever winding the tracer
\* produced; a contour is reversed exactly when it violates this.
C24_EmittedWindingIsFixed ==
    \A k \in 1..Len(otEmitted) :
        LET r == otEmitted[k]
        IN  /\ r.role = "outline" =>
                  /\ TwiceSignedArea(r.commands) > 0
                  /\ r.reversed <=> TwiceSignedArea(r.source) < 0
            /\ r.role = "hole" =>
                  /\ TwiceSignedArea(r.commands) < 0
                  /\ r.reversed <=> TwiceSignedArea(r.source) > 0

\* ---------------------------------------------------------------------------
\* One pass of zhangSuenThinning observed sub-iteration by sub-iteration
\* (Thinning.ts, the body of the while loop).  The grid is ThinSize x ThinSize
\* and every assignment of ink to its pixels is tried, so the pixel (1, 1)
\* meets each of the 2^8 neighbourhoods.
\* ---------------------------------------------------------------------------

PassGrids == [PixelsOf(ThinSize, ThinSize) -> {0, 1}]

\* the first double loop of the body: collect, then clear
SubIteration1(g, w, h) ==
    {p \in InteriorOf(w, h) : g[p] = 1 /\ shouldRemoveStep1(g, p[1], p[2])}

\* the second double loop of the body: collect, then clear
SubIteration2(g, w, h) ==
    {p \in InteriorOf(w, h) : g[p] = 1 /\ shouldRemoveStep2(g, p[1], p[2])}

Pass_Begin ==
    /\ passPc = "idle"
    /\ \E g \in PassGrids : passStart' = g
    /\ passPc' = "sub1"
    /\ UNCHANGED <<markedFirst, passMid, markedSecond, passEnd>>
    /\ UNCHANGED passRest

Pass_SubIteration1 ==
    /\ passPc = "sub1"
    /\ markedFirst' = SubIteration1(passStart, ThinSize, ThinSize)
    /\ passMid' = RemoveAll(passStart, markedFirst')
    /\ passPc' = "sub2"
    /\ UNCHANGED <<passStart, markedSecond, passEnd>>
    /\ UNCHANGED passRest

Pass_SubIteration2 ==
    /\ passPc = "sub2"
    /\ markedSecond' = SubIteration2(passMid, ThinSize, ThinSize)
    /\ passEnd' = RemoveAll(passMid, markedSecond')
    /\ passPc' = "done"
    /\ UNCHANGED <<passStart, markedFirst, passMid>>
    /\ UNCHANGED passRest

PassInit == BaseIdle /\ StageIdle

PassNext ==
    \/ Pass_Begin
    \/ Pass_SubIteration1
    \/ Pass_SubIteration2

SpecPass == PassInit /\ [][PassNext]_vars

\* P2 .. P9 of the pixel p of the grid g: P2 is the pixel above p and the
\* others follow clockwise
NeighbourP(g, p, n) ==
    LET x == p[1]
        y == p[2]
    IN  CASE n = 2 -> g[<<x, y - 1>>]
          [] n = 3 -> g[<<x + 1, y - 1>>]
          [] n = 4 -> g[<<x + 1, y>>]
          [] n = 5 -> g[<<x + 1, y + 1>>]
          [] n = 6 -> g[<<x, y + 1>>]
          [] n = 7 -> g[<<x - 1, y + 1>>]
          [] n = 8 -> g[<<x - 1, y>>]
          [] n = 9 -> g[<<x - 1, y - 1>>]

\* A: how many of P2 .. P9 are ink
InkNeighbours(g, p) == Cardinality({n \in 2..9 : NeighbourP(g, p, n) = 1})

\* B: the 0 -> 1 steps along P2, P3, ..., P9 and back to P2
ZeroToOneSteps(g, p) ==
    Cardinality({n \in 2..9 :
        /\ NeighbourP(g, p, n) = 0
        /\ NeighbourP(g, p, IF n = 9 THEN 2 ELSE n + 1) = 1})

SomeZero(g, p, a, b, c) ==
    NeighbourP(g, p, a) = 0 \/ NeighbourP(g, p, b) = 0 \/ NeighbourP(g, p, c) = 0

StatedStep1(g, p) ==
    /\ InkNeighbours(g, p) \in 2..6
    /\ ZeroToOneSteps(g, p) = 1
    /\ SomeZero(g, p, 2, 4, 6)
    /\ SomeZero(g, p, 4, 6, 8)

StatedStep2(g, p) ==
    /\ InkNeighbours(g, p) \in 2..6
    /\ ZeroToOneSteps(g, p) = 1
    /\ SomeZero(g, p, 2, 4, 8)
    /\ SomeZero(g, p, 2, 6, 8)

InteriorInk(g) == {p \in InteriorOf(ThinSize, ThinSize) : g[p] = 1}

WithoutPixels(g, ps) == [p \in DOMAIN g |-> IF p \in ps THEN 0 ELSE g[p]]

\* C25: sub-iteration 1 marks an interior ink pixel exactly when 2 <= A <= 6,
\* B = 1, P2*P4*P6 = 0 and P4*P6*P8 = 0, and sub-iteration 2 exactly when
\* 2 <= A <= 6, B = 1, P2*P4*P8 = 0 and P2*P6*P8 = 0; each decision is taken
\* on the grid as it was when the sub-iteration started, and the marked pixels
\* are the only ones that change, all together.
C25_SubIterationsMarkAsStated ==
    /\ passPc \in {"sub2", "done"} =>
        /\ markedFirst = {p \in InteriorInk(passStart) : StatedStep1(passStart, p)}
        /\ passMid = WithoutPixels(passStart, markedFirst)
    /\ passPc = "done" =>
        /\ markedSecond = {p \in InteriorInk(passMid) : StatedStep2(passMid, p)}
        /\ passEnd = WithoutPixels(passMid, markedSecond)

\* a pass in which sub-iteration 1 clears two adjacent pixels at once, the
\* second of which would have stayed had the first been cleared before it was
\* examined, and in which sub-iteration 2 clears a pixel too
C25_Witness ==
    /\ passPc = "done"
    /\ markedSecond # {}
    /\ \E p, q \in markedFirst :
        /\ p # q
        /\ q[1] - p[1] \in -1..1
        /\ q[2] - p[2] \in -1..1
        /\ ~StatedStep1(WithoutPixels(passStart, {p}), q)

\* ---------------------------------------------------------------------------
\* loadOpenCV (OpenCVProcessor.ts 15-67).  JavaScript runs one task at a time,
\* so a call of loadOpenCV, a script event and a timer callback are each one
\* step.  The document, the script's download and the start of the OpenCV
\* runtime are the environment.
\* ---------------------------------------------------------------------------

MaxCalls == 5

MaxPolls == 4

BrowserOnlyError == "OpenCV.js can only be loaded in browser"

CdnError == "Failed to load OpenCV.js from CDN"

NewPromise(state, reason) == [state |-> state, reason |-> reason]

\* resolve() and reject() act on a pending promise only
Settle(promise, state, reason) ==
    IF promise.state = "pending" THEN NewPromise(state, reason) ELSE promise

\* the test 'window.cv && window.cv.Mat'
CvHasMat == windowCv = "ready"

\* one call of loadOpenCV, up to its return
LoadOpenCV ==
    /\ Len(loadCalls) < MaxCalls
    /\ IF cvReady /\ hasWindow /\ windowCv # "none"
       THEN /\ loadCalls' = Append(loadCalls, [returned |-> "nothing", created |-> FALSE])
            /\ UNCHANGED <<cvReady, cvLoadPromise, scripts>>
       ELSE IF cvLoadPromise # NullRecord
       THEN /\ loadCalls' = Append(loadCalls, [returned |-> "cvLoadPromise", created |-> FALSE])
            /\ UNCHANGED <<cvReady, cvLoadPromise, scripts>>
       ELSE /\ loadCalls' = Append(loadCalls, [returned |-> "cvLoadPromise", created |-> TRUE])
            /\ IF ~hasWindow
               THEN /\ cvLoadPromise' = NewPromise("rejected", BrowserOnlyError)
                    /\ UNCHANGED <<cvReady, scripts>>
               ELSE IF CvHasMat
               THEN /\ cvReady' = TRUE
                    /\ cvLoadPromise' = NewPromise("fulfilled", "")
                    /\ UNCHANGED scripts
               ELSE /\ cvLoadPromise' = NewPromise("pending", "")
                    /\ scripts' = Append(scripts, "loading")
                    /\ UNCHANGED cvReady
    /\ UNCHANGED <<hasWindow, windowCv, timerArmed, polls>>
    /\ UNCHANGED loaderRest

\* checkReady with window.cv in the state cv
CheckReadyWith(cv) ==
    IF cv = "ready"
    THEN /\ cvReady' = TRUE
         /\ cvLoadPromise' = Settle(cvLoadPromise, "fulfilled", "")
         /\ timerArmed' = FALSE
         /\ UNCHANGED polls
    ELSE /\ timerArmed' = TRUE
         /\ polls' = (polls + 1) % (MaxPolls + 1)
         /\ UNCHANGED <<cvReady, cvLoadPromise>>

\* the script has run and its load event is delivered: script.onload.  What
\* the script left in window.cv is the environment's: the module with or
\* without cv.Mat.
ScriptOnload ==
    /\ \E k \in 1..Len(scripts) :
        /\ scripts[k] = "loading"
        /\ scripts' = [scripts EXCEPT ![k] = "loaded"]
    /\ \E cv \in {"module", "ready"} :
        /\ windowCv' = cv
        /\ CheckReadyWith(cv)
    /\ UNCHANGED <<hasWindow, loadCalls>>
    /\ UNCHANGED loaderRest

\* the download failed: script.onerror
ScriptOnerror ==
    /\ \E k \in 1..Len(scripts) :
        /\ scripts[k] = "loading"
        /\ scripts' = [scripts EXCEPT ![k] = "error"]
    /\ cvLoadPromise' = Settle(cvLoadPromise, "rejected", CdnError)
    /\ UNCHANGED <<hasWindow, windowCv, cvReady, timerArmed, polls, loadCalls>>
    /\ UNCHANGED loaderRest

\* the timer set by checkReady fires
CheckReady ==
    /\ timerArmed
    /\ CheckReadyWith(windowCv)
    /\ UNCHANGED <<hasWindow, windowCv, scripts, loadCalls>>
    /\ UNCHANGED loaderRest

\* the OpenCV runtime finishes its start-up and defines cv.Mat (environment)
RuntimeInitialized ==
    /\ windowCv = "module"
    /\ windowCv' = "ready"
    /\ UNCHANGED <<hasWindow, cvReady, cvLoadPromise, scripts, timerArmed, polls, loadCalls>>
    /\ UNCHANGED loaderRest

\* the module is imported in a browser or on the server, and another script of
\* the page may have loaded OpenCV already
LoaderInit ==
    /\ BaseIdle
    /\ ComponentIdle /\ FilterIdle /\ OpentypeIdle /\ PassIdle
    /\ StoreIdle /\ UploadIdle
    /\ PolarityIdle /\ ThinIdle /\ WeldIdle /\ SimplifyIdle /\ ContourIdle /\ MonoIdle
    /\ hasWindow \in BOOLEAN
    /\ windowCv \in (IF hasWindow THEN {"none", "ready"} ELSE {"none"})
    /\ cvReady = FALSE
    /\ cvLoadPromise = NullRecord
    /\ scripts = <<>>
    /\ timerArmed = FALSE
    /\ polls = 0
    /\ loadCalls = <<>>

LoaderNext ==
    \/ LoadOpenCV
    \/ ScriptOnload
    \/ ScriptOnerror
    \/ CheckReady
    \/ RuntimeInitialized

SpecLoader == LoaderInit /\ [][LoaderNext]_vars

\* The browser delivers one of the two events of a script element, and a
\* timer that is set fires; nothing obliges the runtime to start.
SpecLoaderFair ==
    /\ SpecLoader
    /\ WF_vars(ScriptOnload \/ ScriptOnerror)
    /\ WF_vars(CheckReady)

LoadPending == cvLoadPromise # NullRecord /\ cvLoadPromise.state = "pending"

LoadSettled == cvLoadPromise # NullRecord /\ cvLoadPromise.state # "pending"

\* at most one script element is appended and only the first call that finds
\* no promise creates one
OneLoadAttempt ==
    /\ Len(scripts) <= 1
    /\ Cardinality({k \in 1..Len(loadCalls) : loadCalls[k].created}) <= 1

\* a promise that was rejected stays rejected with the same reason, and no
\* load is started after it
FailureIsFinal ==
    [][(cvLoadPromise # NullRecord /\ cvLoadPromise.state = "rejected") =>
            /\ cvLoadPromise' = cvLoadPromise
            /\ scripts' = scripts
            /\ \A k \in (Len(loadCalls) + 1)..Len(loadCalls') :
                loadCalls'[k] = [returned |-> "cvLoadPromise", created |-> FALSE]]_vars

\* C26: any number of loadOpenCV calls append at most one script element and
\* share one promise, a failed load stays failed for every later call, and the
\* promise of a started load eventually resolves or rejects.
C26_LoadEventuallySettles ==
    /\ []OneLoadAttempt
    /\ FailureIsFinal
    /\ LoadPending ~> LoadSettled

\* ---------------------------------------------------------------------------
\* The glyph store (fontStore.ts 37-50, 79-103, 153-159), the draw page's
\* handlers (handleSave, handleClear, handlePrev, handleNext) and the loop of
\* the upload page that saves the glyphs of a processed page.  A path is the
\* sequence of the x coordinates of its commands: the advance width depends
\* on nothing else.
\* ---------------------------------------------------------------------------

NumStoreChars == 2

\* the characters of the store, by position in ALL_CHARACTERS
StoreCharacters == 0..(NumStoreChars - 1)

defaultAdvanceWidth == 500

canvasSize == 400

unitsPerEm == 1000

sideBearing == 50

\* what the user can draw: x coordinates on the canvas
DrawnSvgPaths == {<<40, 120>>, <<0, 300>>, <<200>>}

\* what processTemplatePage returns for a cell: a path and its advance width
UploadedGlyphs ==
    {[opentypePath |-> <<50, 350>>, advanceWidth |-> 400],
     [opentypePath |-> <<50, 650>>, advanceWidth |-> 700]}

initializeGlyphs ==
    [c \in StoreCharacters |->
        [path |-> NullRecord, advanceWidth |-> defaultAdvanceWidth, isComplete |-> FALSE]]

\* set((state) => ...) of setGlyphPath; advanceWidth is <<w>>, or <<>> when
\* the caller passes none
setGlyphPath(glyphMap, unicode, path, advanceWidth) ==
    [glyphMap EXCEPT ![unicode] =
        [path |-> path,
         isComplete |-> TRUE,
         advanceWidth |-> IF advanceWidth # <<>> THEN advanceWidth[1]
                          ELSE glyphMap[unicode].advanceWidth]]

clearGlyph(glyphMap, unicode) ==
    [glyphMap EXCEPT ![unicode] =
        [path |-> NullRecord,
         isComplete |-> FALSE,
         advanceWidth |-> glyphMap[unicode].advanceWidth]]

\* Math.round(x * scale) with scale = unitsPerEm / canvasSize
transformX(x) == (2 * x * unitsPerEm + canvasSize) \div (2 * canvasSize)

svgPathToOpentypePath(svgD) == [k \in 1..Len(svgD) |-> transformX(svgD[k])]

BoundingBox(path) ==
    LET xs == {path[k] : k \in 1..Len(path)}
    IN  [x1 |-> SetMin(xs), x2 |-> SetMax(xs)]

calculateAdvanceWidth(path) ==
    LET bbox == BoundingBox(path)
    IN  sideBearing + (bbox.x2 - bbox.x1) + sideBearing

\* the loop of processCurrentPage over result.glyphs (upload/page.tsx 190-193)
RECURSIVE SaveGlyphs(_, _, _)
SaveGlyphs(glyphMap, saved, k) ==
    IF k > Len(saved) THEN glyphMap
    ELSE SaveGlyphs(setGlyphPath(glyphMap, saved[k].unicode, saved[k].glyph.opentypePath,
                                 <<saved[k].glyph.advanceWidth>>),
                    saved, k + 1)

\* the glyphs of one processed page: distinct characters in increasing order
PageResults ==
    {<<>>}
    \cup {<<[unicode |-> c, glyph |-> g]>> : c \in StoreCharacters, g \in UploadedGlyphs}
    \cup {<<[unicode |-> 0, glyph |-> g], [unicode |-> 1, glyph |-> h]>> :
            g \in UploadedGlyphs, h \in UploadedGlyphs}

RECURSIVE NoteWidths(_, _, _)
NoteWidths(widths, saved, k) ==
    IF k > Len(saved) THEN widths
    ELSE NoteWidths([widths EXCEPT ![saved[k].unicode] = saved[k].glyph.advanceWidth],
                    saved, k + 1)

Store_Create ==
    /\ storeGlyphs = <<>>
    /\ storeGlyphs' = initializeGlyphs
    /\ pathWidth' = [c \in StoreCharacters |-> 0]
    /\ UNCHANGED <<currentCharacterIndex, currentSvgPath>>
    /\ UNCHANGED storeRest

Store_SavePage ==
    /\ storeGlyphs # <<>>
    /\ \E saved \in PageResults :
        /\ storeGlyphs' = SaveGlyphs(storeGlyphs, saved, 1)
        /\ pathWidth' = NoteWidths(pathWidth, saved, 1)
    /\ UNCHANGED <<currentCharacterIndex, currentSvgPath>>
    /\ UNCHANGED storeRest

Draw_PathChange ==
    /\ storeGlyphs # <<>>
    /\ \E svgPath \in DrawnSvgPaths \cup {<<>>} : currentSvgPath' = svgPath
    /\ UNCHANGED <<storeGlyphs, currentCharacterIndex, pathWidth>>
    /\ UNCHANGED storeRest

\* handleSave: the width it computes is not handed to setGlyphPath
Draw_Save ==
    /\ storeGlyphs # <<>>
    /\ currentSvgPath # <<>>
    /\ LET opentypePath == svgPathToOpentypePath(currentSvgPath)
           advanceWidth == calculateAdvanceWidth(opentypePath)
       IN  /\ storeGlyphs' = setGlyphPath(storeGlyphs, currentCharacterIndex,
                                          opentypePath, <<>>)
           /\ pathWidth' = [pathWidth EXCEPT ![currentCharacterIndex] = advanceWidth]
    /\ IF currentCharacterIndex < NumStoreChars - 1
       THEN /\ currentCharacterIndex' = currentCharacterIndex + 1
            /\ currentSvgPath' = <<>>
       ELSE UNCHANGED <<currentCharacterIndex, currentSvgPath>>
    /\ UNCHANGED storeRest

Draw_Clear ==
    /\ storeGlyphs # <<>>
    /\ storeGlyphs' = clearGlyph(storeGlyphs, currentCharacterIndex)
    /\ pathWidth' = [pathWidth EXCEPT ![currentCharacterIndex] = 0]
    /\ currentSvgPath' = <<>>
    /\ UNCHANGED currentCharacterIndex
    /\ UNCHANGED storeRest

Draw_Prev ==
    /\ storeGlyphs # <<>>
    /\ currentCharacterIndex > 0
    /\ currentCharacterIndex' = currentCharacterIndex - 1
    /\ currentSvgPath' = <<>>
    /\ UNCHANGED <<storeGlyphs, pathWidth>>
    /\ UNCHANGED storeRest

Draw_Next ==
    /\ storeGlyphs # <<>>
    /\ currentCharacterIndex < NumStoreChars - 1
    /\ currentCharacterIndex' = currentCharacterIndex + 1
    /\ currentSvgPath' = <<>>
    /\ UNCHANGED <<storeGlyphs, pathWidth>>
    /\ UNCHANGED storeRest

Store_ResetProject ==
    /\ storeGlyphs # <<>>
    /\ storeGlyphs' = initializeGlyphs
    /\ currentCharacterIndex' = 0
    /\ pathWidth' = [c \in StoreCharacters |-> 0]
    /\ UNCHANGED currentSvgPath
    /\ UNCHANGED storeRest

StoreInit == BaseIdle /\ StageIdle

StoreNext ==
    \/ Store_Create
    \/ Store_SavePage
    \/ Draw_PathChange
    \/ Draw_Save
    \/ Draw_Clear
    \/ Draw_Prev
    \/ Draw_Next
    \/ Store_ResetProject

SpecStore == StoreInit /\ [][StoreNext]_vars

\* C27: the advanceWidth stored for a complete glyph is the width that belongs
\* to its current path: the one supplied with that path, or for a glyph saved
\* from the draw page the calculateAdvanceWidth of the saved path.
C27_AdvanceWidthBelongsToPath ==
    storeGlyphs # <<>> =>
        \A c \in StoreCharacters :
            storeGlyphs[c].isComplete => storeGlyphs[c].advanceWidth = pathWidth[c]

\* ---------------------------------------------------------------------------
\* The cells of a rendered blank template against the cells that
\* processTemplatePage extracts for the same page.
\* ---------------------------------------------------------------------------

\* every cell renderBlankTemplate drew, labelled or empty, in the order drawn
DrawnCells == SelectSeq(canvas, LAMBDA d : d.op \in {"drawCell", "drawEmptyCell"})

\* the cells drawn with a character, as <<row, col, character>>
LabelledCells ==
    {<<canvas[k].row, canvas[k].col, canvas[k].character>> :
        k \in {j \in 1..Len(canvas) : canvas[j].op = "drawCell"}}

\* the cells the loop of processTemplatePage visits for the same page, each
\* with the character it extracts there
ProcessedCells(o) ==
    {<<RowOf(n - startIdx(o), o.config), ColOf(n - startIdx(o), o.config),
       Characters(o.characterSet)[n + 1]>> : n \in startIdx(o)..(endIdx(o) - 1)}

GridPositions(config) ==
    (0..(config.rowsPerPage - 1)) \X (0..(config.cellsPerRow - 1))

\* C28: for every page number and character set renderBlankTemplate draws
\* exactly cellsPerRow * rowsPerPage cells, one at each position of the grid
\* and none at a negative row or column, and the cells it labels are the
\* cells processTemplatePage maps to the same character for that page.
C28_RenderedGridMatchesProcessing ==
    renderPc = "returned" =>
        /\ Len(DrawnCells) = renderArgs.config.cellsPerRow * renderArgs.config.rowsPerPage
        /\ \A k \in 1..Len(DrawnCells) : DrawnCells[k].row >= 0 /\ DrawnCells[k].col >= 0
        /\ \A pos \in GridPositions(renderArgs.config) :
              Cardinality({k \in 1..Len(DrawnCells) :
                  <<DrawnCells[k].row, DrawnCells[k].col>> = pos}) = 1
        /\ LabelledCells = ProcessedCells(renderArgs)

\* the places <<n, m>> of the raw strokes that hold the pixel p
PlacesOf(p) ==
    {place \in UNION {{n} \X (1..Len(rawStrokes[n])) : n \in 1..Len(rawStrokes)} :
        rawStrokes[place[1]][place[2]] = p}

\* C29: the strokes returned by extractStrokesFromSkeleton partition the ink
\* pixels of the skeleton: every ink pixel occurs in exactly one stroke and
\* exactly once, each stroke has at least 2 points, and consecutive points of
\* a stroke are 8-adjacent ink pixels.
C29_StrokesPartitionSkeleton ==
    Extracted =>
        /\ \A p \in InkOf(skeleton) : Cardinality(PlacesOf(p)) = 1
        /\ \A n \in 1..Len(rawStrokes) :
              /\ Len(rawStrokes[n]) >= 2
              /\ PointsOf(rawStrokes[n]) \subseteq InkOf(skeleton)
              /\ \A m \in 1..(Len(rawStrokes[n]) - 1) :
                    Adjacent8(rawStrokes[n][m], rawStrokes[n][m + 1])

\* ---------------------------------------------------------------------------
\* The upload page (src/app/create/upload/page.tsx).  Every event handler and
\* every continuation after an await is one step.  processCurrentPage reads
\* currentPdfPage from the render in which the button was pressed, awaits
\* processTemplatePage, and continues with what it read.
\* ---------------------------------------------------------------------------

MaxPdfPages == 3

MaxRuns == 2

\* the card with the preview, the page navigation and 'Change File' is
\* rendered in these states (line 346)
PreviewShown == uploadState \in {"ready", "processing", "done"}

\* handleFileSelect up to its await (lines 66-82); the file input is rendered
\* in the state 'idle' only
FileSelect_Begin ==
    /\ uploadState = "idle"
    /\ uploadState' = "loading"
    /\ pdfPages' = 0
    /\ currentPdfPage' = 0
    /\ \E t \in {"pdf", "image"} : fileType' = t
    /\ UNCHANGED <<inFlight, started, savedFrom>>
    /\ UNCHANGED uploadRest

\* handleFileSelect after loadPdf, or img.onload / img.onerror (lines 83-106)
FileSelect_Loaded ==
    /\ uploadState = "loading"
    /\ \/ /\ fileType = "pdf"
          /\ \E n \in 0..MaxPdfPages :
                IF n = 0 THEN /\ uploadState' = "error"
                              /\ UNCHANGED pdfPages
                ELSE /\ pdfPages' = n
                     /\ uploadState' = "ready"
       \/ /\ fileType = "image"
          /\ \E s \in {"ready", "error"} : uploadState' = s
          /\ UNCHANGED pdfPages
    /\ UNCHANGED <<fileType, currentPdfPage, inFlight, started, savedFrom>>
    /\ UNCHANGED uploadRest

\* processCurrentPage up to its await (lines 144-163): pressed in 'ready'
ProcessCurrentPage_Begin ==
    /\ uploadState = "ready"
    /\ started < MaxRuns
    /\ uploadState' = "processing"
    /\ inFlight' = Append(inFlight, currentPdfPage)
    /\ started' = started + 1
    /\ UNCHANGED <<fileType, pdfPages, currentPdfPage, savedFrom>>
    /\ UNCHANGED uploadRest

\* processCurrentPage after the await (lines 181-208): the result has glyphs
\* and they are saved, or it has none, failed or threw
ProcessCurrentPage_Finish ==
    /\ \E k \in 1..Len(inFlight) :
        /\ inFlight' = RemoveAt(inFlight, k)
        /\ \/ /\ savedFrom' = inFlight[k]
              /\ uploadState' = "done"
           \/ /\ uploadState' = "error"
              /\ UNCHANGED savedFrom
    /\ UNCHANGED <<fileType, pdfPages, currentPdfPage, started>>
    /\ UNCHANGED uploadRest

\* the two buttons of the page navigation (lines 381-404)
PreviousPdfPage ==
    /\ PreviewShown
    /\ fileType = "pdf" /\ pdfPages > 1
    /\ currentPdfPage # 0
    /\ currentPdfPage' = Max(0, currentPdfPage - 1)
    /\ UNCHANGED <<uploadState, fileType, pdfPages, inFlight, started, savedFrom>>
    /\ UNCHANGED uploadRest

FollowingPdfPage ==
    /\ PreviewShown
    /\ fileType = "pdf" /\ pdfPages > 1
    /\ ~(currentPdfPage >= pdfPages - 1)
    /\ currentPdfPage' = Min(pdfPages - 1, currentPdfPage + 1)
    /\ UNCHANGED <<uploadState, fileType, pdfPages, inFlight, started, savedFrom>>
    /\ UNCHANGED uploadRest

\* the button 'Next Page' of the state 'done' (lines 469-481)
NextPage ==
    /\ uploadState = "done"
    /\ fileType = "pdf" /\ currentPdfPage < pdfPages - 1
    /\ currentPdfPage' = currentPdfPage + 1
    /\ uploadState' = "ready"
    /\ UNCHANGED <<fileType, pdfPages, inFlight, started, savedFrom>>
    /\ UNCHANGED uploadRest

\* handleReset (lines 211-222): 'Try Again', 'Change File', 'Upload Another'
HandleReset ==
    /\ \/ uploadState = "error"
       \/ PreviewShown
    /\ pdfPages' = 0
    /\ currentPdfPage' = 0
    /\ uploadState' = "idle"
    /\ UNCHANGED <<fileType, inFlight, started, savedFrom>>
    /\ UNCHANGED uploadRest

UploadInit == BaseIdle /\ StageIdle

UploadNext ==
    \/ FileSelect_Begin
    \/ FileSelect_Loaded
    \/ ProcessCurrentPage_Begin
    \/ ProcessCurrentPage_Finish
    \/ PreviousPdfPage
    \/ FollowingPdfPage
    \/ NextPage
    \/ HandleReset

SpecUpload == UploadInit /\ [][UploadNext]_vars

\* C30: the PDF page index does not change while state = 'processing'; when
\* the state becomes 'done' the glyphs just written were extracted from the
\* page that is then current; and 'Next Page' goes to the page after the one
\* that was processed.
C30_ProcessedPageIsCurrentPage ==
    [][/\ uploadState = "processing" => currentPdfPage' = currentPdfPage
       /\ (uploadState # "done" /\ uploadState' = "done") => savedFrom' = currentPdfPage'
       /\ (uploadState = "done" /\ uploadState' = "ready") => currentPdfPage' = savedFrom + 1
      ]_vars

====
